---- MODULE Spec2Model ----
(***************************************************************************)
(* Ordering & renaming engine of Managa_Renamer.                           *)
(*                                                                         *)
(*   VLMAnalyzer  (src/core/vlm_analyzer.py): comparison cache and the     *)
(*                content sort, one comparator call per step               *)
(*   ImageRenamer (src/core/renamer.py): backup, plan, rename, restore,    *)
(*                one filesystem operation per step                        *)
(*   SequenceDetector (src/core/sequence_detector.py): numbers extracted   *)
(*                from file names, missing numbers, duplicates, gaps       *)
(***************************************************************************)
EXTENDS Integers, Sequences, FiniteSets, TLC

\* ------------------------------------------------------------------ bounds
\* number of image paths known to the analyzer
NumImages == 3
\* longest list handed to sort_images_by_content
MaxLen == 3
\* model calls counted per unordered pair (the counter stops there)
MaxCallsPerPair == 2
\* oracle failures injected over one analyzer lifetime
MaxOracleFaults == 1

\* ---------------------------------------------------------------- analyzer
VARIABLES
    ENABLE_COMPARISON_CACHE, \* Config.ENABLE_COMPARISON_CACHE
    comparison_cache,        \* self.comparison_cache: (img1, img2) -> result
    oracle_calls,            \* history: model calls per unordered pair since the cache was last empty
    oracle_verdicts,         \* history: model calls that returned a response, per unordered pair
    oracle_faults,           \* history: comparisons that raised
    last_compare,            \* history: the last compare_images_order call and what it returned
    sort_pc,                 \* position inside sort_images_by_content
    image_paths,             \* argument of the running / last sort
    progress_callback,       \* whether a progress callback was passed
    keys,                    \* the list being sorted by sorted()
    run_len,                 \* count_run: length of the run found so far
    descending,              \* count_run: the run is strictly descending
    bs_start,                \* binarysort: index of the pivot
    bs_l,                    \* binarysort: left end of the search interval
    bs_r,                    \* binarysort: right end of the search interval
    current_comparison,      \* current_comparison[0]
    total_comparisons,       \* total_comparisons
    progress_calls,          \* history: arguments of every progress callback call
    sorted_paths,            \* return value of the last sort
    sort_unknown_only,       \* history: every comparator result of this sort was 0
    sort_fault_seen,         \* history: some comparison of this sort raised
    sort_verdicts,           \* history: (img1, img2, result) of every comparison of this sort
    cached_for               \* history: per cache entry, the contents of its two files when it was stored

analyzer_vars ==
    << ENABLE_COMPARISON_CACHE, comparison_cache, oracle_calls, oracle_verdicts,
       oracle_faults, last_compare, sort_pc, image_paths, progress_callback, keys,
       run_len, descending, bs_start, bs_l, bs_r, current_comparison,
       total_comparisons, progress_calls, sorted_paths, sort_unknown_only,
       sort_fault_seen, sort_verdicts, cached_for >>

\* ----------------------------------------------------------------- renamer
VARIABLES
    platform,        \* "posix" or "windows": what os.rename does to an existing target
    now,             \* the clock datetime.now() reads, in seconds
    fs,              \* the files on disk: path -> content
    dirs,            \* the directories on disk
    dry_run,         \* self.dry_run
    rn_pc,           \* position inside rename_files / restore_from_backup
    file_paths,      \* argument of rename_files
    target_dir,      \* target_dir, once determined
    prefix,          \* argument of rename_files
    digits,          \* argument of rename_files
    start_number,    \* argument of rename_files
    backup,          \* argument of rename_files
    backup_dir,      \* the snapshot directory of this batch (<<>>: none)
    temp_renames,    \* the plan: original_path, final_path, number per file
    rename_log,      \* rename_log
    idx,             \* position of the loop that is running
    restore_dir,     \* argument of restore_from_backup
    restore_todo,    \* files of the snapshot that iterdir() has not yielded yet
    restore_result,  \* return value of restore_from_backup
    fs_faults,       \* history: filesystem errors injected
    fs_at_call,      \* history: the files on disk when rename_files was called
    dirs_at_call,    \* history: the directories on disk when rename_files was called
    backed_up,       \* history: positions of file_paths whose backup copy succeeded
    target_dir_arg,  \* history: the target_dir argument of rename_files (<<>>: None)
    rerun            \* history: the call repeats a batch on the paths it produced

renamer_vars ==
    << platform, now, fs, dirs, dry_run, rn_pc, file_paths, target_dir, prefix,
       digits, start_number, backup, backup_dir, temp_renames, rename_log, idx,
       restore_dir, restore_todo, restore_result, fs_faults, fs_at_call,
       dirs_at_call, backed_up, target_dir_arg, rerun >>

\* ---------------------------------------------------------------- detector
VARIABLES
    det_ready,       \* a list of files has been handed to the detector
    det_files,       \* file_paths: the argument of every detector method
    validation,      \* <<result>> of validate_sequence, <<>> before the call
    missing,         \* <<result>> of detect_missing, <<>> before the call
    duplicates,      \* <<result>> of detect_duplicates, <<>> before the call
    gaps             \* <<result>> of get_sequence_gaps, <<>> before the call

detector_vars == << det_ready, det_files, validation, missing, duplicates, gaps >>

\* --------------------------------------------------------------------- GUI
VARIABLES
    current_folder,        \* self.current_folder: 0 is the empty string
    image_files,           \* self.image_files
    gui_sorted_paths,      \* self.sorted_paths
    analysis_in_progress,  \* self.analysis_in_progress
    vlm_analyzer_loaded,   \* self.vlm_analyzer is set
    threads,               \* the analysis threads: position and the local image_paths
    rename_pc,             \* position of the GUI thread inside _execute_rename
    ordered_paths,         \* the batch handed to rename_by_order, <<>> outside the call
    rename_message         \* the message box _execute_rename ended with last

gui_vars ==
    << current_folder, image_files, gui_sorted_paths, analysis_in_progress,
       vlm_analyzer_loaded, threads, rename_pc, ordered_paths, rename_message >>

vars == << analyzer_vars, renamer_vars, detector_vars, gui_vars >>

Images == 1..NumImages

DigitChars == <<"0", "1", "2", "3", "4", "5", "6", "7", "8", "9">>

\* a path: the directory (a sequence of names) and the file name
Path(dir, name) == [parent |-> dir, name |-> name]

\* the scanned folder, and a directory that does not exist yet
FolderDir == << <<"d">> >>
OtherDir == << <<"e">> >>

\* the file "<k>.jpg" of the scanned folder
ScannedFile(k) == Path(FolderDir, <<DigitChars[k + 1], ".", "jpg">>)

\* the path string the analyzer is given for image k: the scanned file k.jpg
ImageFile(img) == ScannedFile(img)

\* Image.open(image_path) finds a file to read
Readable(img) == ImageFile(img) \in DOMAIN fs

\* the content now stored at the path of image k (0: no file)
Content(img) == IF Readable(img) THEN fs[ImageFile(img)] ELSE 0

\* unordered pairs of distinct image paths
Pairs == { {a, b} : a \in Images, b \in Images } \ { {a} : a \in Images }

\* injective lists of image paths, as a directory scan yields them
ImageLists ==
    UNION { { s \in [1..n -> Images] : \A i, j \in 1..n : i # j => s[i] # s[j] }
            : n \in 0..MaxLen }

\* `sub in s` for Python strings, on sequences of characters
Contains(sub, s) ==
    \E i \in 1..(Len(s) - Len(sub) + 1) : SubSeq(s, i, i + Len(sub) - 1) = sub

\* text the model may answer with
Responses ==
    { <<"-", "1">>, <<"1">>, <<"0">>, <<"1", "0">> }

\* what one oracle consultation can do: fail while encoding the images, fail
\* inside the model call, or return a response
Outcomes ==
    { [kind |-> "encode_error", content |-> <<>>],
      [kind |-> "llm_error", content |-> <<>>] }
    \cup { [kind |-> "response", content |-> c] : c \in Responses }

\* extraction of the number from the response
ParseVerdict(content) ==
    IF Contains(<<"-", "1">>, content) THEN -1
    ELSE IF Contains(<<"1">>, content) /\ ~Contains(<<"-", "1">>, content) THEN 1
    ELSE 0

EmptyCache == [k \in {} |-> 0]

\* a mutation of CacheLookup: the reversed key is not looked up
CacheLookupSameKey(cache, enabled, img1, img2) ==
    IF enabled /\ <<img1, img2>> \in DOMAIN cache
    THEN [hit |-> TRUE, value |-> cache[<<img1, img2>>]]
    ELSE [hit |-> FALSE, value |-> 0]

\* the cache check at the head of compare_images_order
CacheLookup(cache, enabled, img1, img2) ==
    IF enabled /\ <<img1, img2>> \in DOMAIN cache
    THEN [hit |-> TRUE, value |-> cache[<<img1, img2>>]]
    ELSE IF enabled /\ <<img2, img1>> \in DOMAIN cache
    THEN [hit |-> TRUE, value |-> -cache[<<img2, img1>>]]
    ELSE [hit |-> FALSE, value |-> 0]

\* a mutation of CacheStore: the verdict is dropped
CacheStoreDropped(cache, enabled, key, result) == cache

\* a mutation of CacheStore: the verdict is stored whatever the setting
CacheStoreAlways(cache, enabled, key, result) ==
    [k \in DOMAIN cache \cup {key} |-> IF k = key THEN result ELSE cache[k]]

\* self.comparison_cache[cache_key] = result, if caching is enabled
CacheStore(cache, enabled, key, result) ==
    IF enabled
    THEN [k \in DOMAIN cache \cup {key} |-> IF k = key THEN result ELSE cache[k]]
    ELSE cache

\* a mutation of CompareResult: the reversed entry is served without negation
CompareResultNoInverse(img1, img2, out) ==
    IF ENABLE_COMPARISON_CACHE /\ <<img1, img2>> \in DOMAIN comparison_cache
    THEN comparison_cache[<<img1, img2>>]
    ELSE IF ENABLE_COMPARISON_CACHE /\ <<img2, img1>> \in DOMAIN comparison_cache
    THEN comparison_cache[<<img2, img1>>]
    ELSE IF out.kind = "response" THEN ParseVerdict(out.content) ELSE 0

\* a mutation of CompareResult: a failed comparison propagates as "second first"
CompareResultFaultAsOne(img1, img2, out) ==
    LET lk == CacheLookup(comparison_cache, ENABLE_COMPARISON_CACHE, img1, img2)
    IN  IF lk.hit THEN lk.value
        ELSE IF out.kind = "response" THEN ParseVerdict(out.content) ELSE 1

\* the value compare_images_order(img1, img2) returns when the oracle, if
\* consulted, behaves as `out`
CompareResult(img1, img2, out) ==
    LET lk == CacheLookup(comparison_cache, ENABLE_COMPARISON_CACHE, img1, img2)
    IN  IF lk.hit THEN lk.value
        ELSE IF out.kind = "response" THEN ParseVerdict(out.content) ELSE 0

\* the call reaches llm.create_chat_completion
Invokes(img1, img2, out) ==
    /\ ~CacheLookup(comparison_cache, ENABLE_COMPARISON_CACHE, img1, img2).hit
    /\ out.kind # "encode_error"

\* the call ends in the except branch
Raises(img1, img2, out) ==
    /\ ~CacheLookup(comparison_cache, ENABLE_COMPARISON_CACHE, img1, img2).hit
    /\ out.kind # "response"

\* what the call compare_images_order(img1, img2) found and returned
LastCompare(img1, img2, out) ==
    [img1 |-> img1, img2 |-> img2,
     result |-> CompareResult(img1, img2, out),
     invoked |-> Invokes(img1, img2, out),
     raised |-> Raises(img1, img2, out),
     stored |-> IF ENABLE_COMPARISON_CACHE
                   /\ <<img1, img2>> \in DOMAIN comparison_cache
                THEN "same"
                ELSE IF ENABLE_COMPARISON_CACHE
                        /\ <<img2, img1>> \in DOMAIN comparison_cache
                THEN "reverse" ELSE "none"]

\* a mutation of ReachesStore: the except branch stores its result too
ReachesStoreOrExcept(hit, out) == ~hit

\* the call gets to the store at the end of the try block: no cached entry
\* was returned and nothing raised
ReachesStore(hit, out) == ~hit /\ out.kind = "response"

\* compare_images_order(img1, img2): effect on the cache and on the history
CompareImagesOrderCall(img1, img2, out) ==
    LET hit == CacheLookup(comparison_cache, ENABLE_COMPARISON_CACHE, img1, img2).hit
        p == {img1, img2}
    IN  /\ Invokes(img1, img2, out) => oracle_calls[p] < MaxCallsPerPair
        /\ Raises(img1, img2, out) => oracle_faults < MaxOracleFaults
        /\ (~hit /\ ~(Readable(img1) /\ Readable(img2))) => out.kind = "encode_error"
        /\ comparison_cache' =
              IF ReachesStore(hit, out)
              THEN CacheStore(comparison_cache, ENABLE_COMPARISON_CACHE,
                              <<img1, img2>>, ParseVerdict(out.content))
              ELSE comparison_cache
        /\ cached_for' =
              IF ReachesStore(hit, out)
              THEN CacheStore(cached_for, ENABLE_COMPARISON_CACHE,
                              <<img1, img2>>, <<Content(img1), Content(img2)>>)
              ELSE cached_for
        /\ oracle_calls' =
              IF Invokes(img1, img2, out)
              THEN [oracle_calls EXCEPT ![p] = @ + 1] ELSE oracle_calls
        /\ oracle_verdicts' =
              IF ~hit /\ out.kind = "response"
              THEN [oracle_verdicts EXCEPT ![p] = @ + 1] ELSE oracle_verdicts
        /\ oracle_faults' =
              IF Raises(img1, img2, out) THEN oracle_faults + 1 ELSE oracle_faults

NoCompare == [img1 |-> 0, img2 |-> 0, result |-> 0, invoked |-> FALSE,
              raised |-> FALSE, stored |-> "none"]

sort_locals == << keys, run_len, descending, bs_start, bs_l, bs_r >>

sort_call == << image_paths, progress_callback, current_comparison,
               total_comparisons, progress_calls, sorted_paths,
               sort_unknown_only, sort_fault_seen, sort_verdicts >>

\* the argument, result and counters of a sort, once its caller has moved on
SortCallReset ==
    /\ image_paths' = <<>>
    /\ progress_callback' = FALSE
    /\ current_comparison' = 0
    /\ total_comparisons' = 0
    /\ progress_calls' = <<>>
    /\ sorted_paths' = <<>>
    /\ sort_unknown_only' = TRUE
    /\ sort_fault_seen' = FALSE
    /\ sort_verdicts' = {}

\* the locals of a sort that is not running
SortLocalsReset ==
    /\ keys' = <<>>
    /\ run_len' = 0
    /\ descending' = FALSE
    /\ bs_start' = 0
    /\ bs_l' = 0
    /\ bs_r' = 0

AnalyzerInit ==
    /\ ENABLE_COMPARISON_CACHE \in BOOLEAN
    /\ comparison_cache = EmptyCache
    /\ cached_for = EmptyCache
    /\ oracle_calls = [p \in Pairs |-> 0]
    /\ oracle_verdicts = [p \in Pairs |-> 0]
    /\ oracle_faults = 0
    /\ last_compare = NoCompare
    /\ sort_pc = "idle"
    /\ image_paths = <<>>
    /\ progress_callback = FALSE
    /\ keys = <<>>
    /\ run_len = 0
    /\ descending = FALSE
    /\ bs_start = 0
    /\ bs_l = 0
    /\ bs_r = 0
    /\ current_comparison = 0
    /\ total_comparisons = 0
    /\ progress_calls = <<>>
    /\ sorted_paths = <<>>
    /\ sort_unknown_only = TRUE
    /\ sort_fault_seen = FALSE
    /\ sort_verdicts = {}

\* a direct call of compare_images_order, between two sorts
CompareImagesOrder ==
    \E img1 \in Images : \E img2 \in Images \ {img1} : \E out \in Outcomes :
        /\ sort_pc \in {"idle", "done"}
        /\ CompareImagesOrderCall(img1, img2, out)
        /\ last_compare' = LastCompare(img1, img2, out)
        /\ sort_pc' = "idle"
        /\ SortCallReset
        /\ UNCHANGED << ENABLE_COMPARISON_CACHE, sort_locals, renamer_vars, detector_vars, gui_vars >>

\* clear_cache()
ClearCache ==
    /\ sort_pc \in {"idle", "done"}
    /\ comparison_cache # EmptyCache
    /\ comparison_cache' = EmptyCache
    /\ cached_for' = EmptyCache
    /\ oracle_calls' = [p \in Pairs |-> 0]
    /\ oracle_verdicts' = [p \in Pairs |-> 0]
    /\ last_compare' = NoCompare
    /\ sort_pc' = "idle"
    /\ SortCallReset
    /\ UNCHANGED << ENABLE_COMPARISON_CACHE, oracle_faults, sort_locals, renamer_vars, detector_vars, gui_vars >>

\* a mutation of IsLess: a result of 0 counts as "less"
IsLessOrEqual(result) == result <= 0

\* K.__lt__ of cmp_to_key: x < y iff compare_func(x, y) < 0
IsLess(result) == result < 0

\* whether the caller passes a progress callback
ProgressCallbacks == BOOLEAN

\* a mutation of EarlyReturn: the short input is answered with an empty list
EarlyReturnEmpty(paths) == <<>>

\* `return image_paths` for an input of at most one item
EarlyReturn(paths) == paths

\* total_comparisons = (len * (len - 1)) // 2
EstimatedComparisons(n) == (n * (n - 1)) \div 2

\* a mutation of ReverseRun: the descending run is left as it is
ReverseRunKept(s, n) == s

\* reverse_slice(lo, lo + n) of the list sort: the first n items reversed
ReverseRun(s, n) ==
    [i \in 1..Len(s) |-> IF i <= n THEN s[n + 1 - i] ELSE s[i]]

\* a mutation of InsertPivot: the pivot overwrites the item at l instead of
\* shifting the items l..start-1 one place up
InsertPivotOverwrite(s, start, l) ==
    [i \in 1..Len(s) |-> IF i = l THEN s[start] ELSE s[i]]

\* binarysort: move the pivot s[start] to position l, shifting l..start-1 up
InsertPivot(s, start, l) ==
    [i \in 1..Len(s) |->
        IF i < l THEN s[i]
        ELSE IF i = l THEN s[start]
        ELSE IF i <= start THEN s[i - 1]
        ELSE s[i]]

\* sort_images_by_content(image_paths, progress_callback): entry, the early
\* return for short inputs, and the set-up of sorted()
SortImagesByContentOf(lists, callbacks) ==
    \E paths \in lists : \E cb \in callbacks :
        /\ sort_pc \in {"idle", "done"}
        /\ image_paths' = paths
        /\ progress_callback' = cb
        /\ current_comparison' = 0
        /\ progress_calls' = <<>>
        /\ sort_unknown_only' = TRUE
        /\ sort_fault_seen' = FALSE
        /\ sort_verdicts' = {}
        /\ last_compare' = NoCompare
        /\ IF Len(paths) <= 1
           THEN /\ sorted_paths' = EarlyReturn(paths)
                /\ sort_pc' = "done"
                /\ SortLocalsReset
                /\ total_comparisons' = 0
           ELSE /\ total_comparisons' = EstimatedComparisons(Len(paths))
                /\ keys' = paths
                /\ run_len' = 1
                /\ descending' = FALSE
                /\ bs_start' = 0
                /\ bs_l' = 0
                /\ bs_r' = 0
                /\ sort_pc' = "count_run"
                /\ UNCHANGED sorted_paths
        /\ UNCHANGED << ENABLE_COMPARISON_CACHE, comparison_cache, cached_for,
                        oracle_calls, oracle_verdicts, oracle_faults,
                        renamer_vars, detector_vars, gui_vars >>

\* a sort of any list of scanned images, with or without a progress callback
SortImagesByContent == SortImagesByContentOf(ImageLists, ProgressCallbacks)

\* compare_func(img1, img2): count, report progress, compare
CompareFunc(img1, img2, out) ==
    /\ current_comparison' = current_comparison + 1
    /\ progress_calls' =
          IF progress_callback
          THEN Append(progress_calls, <<current_comparison + 1, total_comparisons>>)
          ELSE progress_calls
    /\ CompareImagesOrderCall(img1, img2, out)
    /\ sort_unknown_only' = (sort_unknown_only /\ CompareResult(img1, img2, out) = 0)
    /\ sort_fault_seen' = (sort_fault_seen \/ Raises(img1, img2, out))
    /\ sort_verdicts' =
          sort_verdicts \cup {<<img1, img2, CompareResult(img1, img2, out)>>}

\* the sort hands its result back
SortReturn(result) ==
    /\ sorted_paths' = result
    /\ sort_pc' = "done"
    /\ SortLocalsReset

\* after count_run: reverse a descending run, then binarysort the rest or finish
AfterCountRun(n, desc) ==
    LET run == IF desc THEN ReverseRun(keys, n) ELSE keys
    IN  IF n < Len(keys)
        THEN /\ keys' = run
             /\ run_len' = n
             /\ descending' = desc
             /\ bs_start' = n + 1
             /\ bs_l' = 1
             /\ bs_r' = n + 1
             /\ sort_pc' = "binarysort"
             /\ UNCHANGED sorted_paths
        ELSE SortReturn(run)

\* one comparison of count_run: is keys[run_len + 1] < keys[run_len] ?
CountRunStep ==
    \E out \in Outcomes :
        LET lt == IsLess(CompareResult(keys[run_len + 1], keys[run_len], out))
            desc == IF run_len = 1 THEN lt ELSE descending
            goes_on == (run_len = 1) \/ (lt = descending)
        IN  /\ sort_pc = "count_run"
            /\ CompareFunc(keys[run_len + 1], keys[run_len], out)
            /\ last_compare' = LastCompare(keys[run_len + 1], keys[run_len], out)
            /\ IF goes_on /\ run_len + 1 < Len(keys)
               THEN /\ run_len' = run_len + 1
                    /\ descending' = desc
                    /\ UNCHANGED << keys, bs_start, bs_l, bs_r, sort_pc, sorted_paths >>
               ELSE AfterCountRun(IF goes_on THEN run_len + 1 ELSE run_len, desc)
            /\ UNCHANGED << ENABLE_COMPARISON_CACHE, image_paths, progress_callback,
                            total_comparisons, renamer_vars, detector_vars, gui_vars >>

\* one comparison of binarysort: is the pivot < keys[p] ?
BinarySortStep ==
    \E out \in Outcomes :
        LET p == bs_l + ((bs_r - bs_l) \div 2)
            lt == IsLess(CompareResult(keys[bs_start], keys[p], out))
            l == IF lt THEN bs_l ELSE p + 1
            r == IF lt THEN p ELSE bs_r
            placed == InsertPivot(keys, bs_start, l)
        IN  /\ sort_pc = "binarysort"
            /\ CompareFunc(keys[bs_start], keys[p], out)
            /\ last_compare' = LastCompare(keys[bs_start], keys[p], out)
            /\ IF l < r
               THEN /\ bs_l' = l
                    /\ bs_r' = r
                    /\ UNCHANGED << keys, run_len, descending, bs_start, sort_pc,
                                    sorted_paths >>
               ELSE IF bs_start < Len(keys)
               THEN /\ keys' = placed
                    /\ bs_start' = bs_start + 1
                    /\ bs_l' = 1
                    /\ bs_r' = bs_start + 1
                    /\ UNCHANGED << run_len, descending, sort_pc, sorted_paths >>
               ELSE SortReturn(placed)
            /\ UNCHANGED << ENABLE_COMPARISON_CACHE, image_paths, progress_callback,
                            total_comparisons, renamer_vars, detector_vars, gui_vars >>

\* ----------------------------------------------------------------- renamer
\* files in the scanned folder, and the longest list handed to rename_files
MaxFiles == 3
\* filesystem errors injected over one run
MaxFsFaults == 1
\* seconds the clock may advance before the batch starts
MaxClock == 1

Platforms == {"posix", "windows"}

\* str(n), as a sequence of characters
RECURSIVE DecimalStr(_)
DecimalStr(n) ==
    IF n < 0 THEN <<"-">> \o DecimalStr(0 - n)
    ELSE IF n < 10 THEN <<DigitChars[n + 1]>>
    ELSE DecimalStr(n \div 10) \o <<DigitChars[(n % 10) + 1]>>

\* a mutation of Zfill: the number is not padded
ZfillNone(s, width) == s

\* s.zfill(width): zeros on the left up to the width, after a leading sign,
\* never cutting
Zfill(s, width) ==
    IF Len(s) >= width THEN s
    ELSE LET zeros == [i \in 1..(width - Len(s)) |-> "0"]
         IN  IF Len(s) > 0 /\ s[1] \in {"-", "+"}
             THEN <<s[1]>> \o zeros \o Tail(s)
             ELSE zeros \o s

\* Path.suffix: from the last dot on, unless that dot starts or ends the name
Suffix(name) ==
    LET dots == { i \in 1..Len(name) : name[i] = "." }
        last == CHOOSE i \in dots : \A j \in dots : j <= i
    IN  IF dots # {} /\ last > 1 /\ last < Len(name)
        THEN SubSeq(name, last, Len(name))
        ELSE <<>>

\* the folder before the run: files 1.jpg .. <MaxFiles>.jpg, file k holding content k
InitialFs == [p \in { ScannedFile(k) : k \in 1..MaxFiles } |->
                 CHOOSE k \in 1..MaxFiles : p = ScannedFile(k)]

\* lists of distinct files of the folder
FileLists ==
    UNION { { l \in [1..n -> DOMAIN InitialFs] :
                \A i, j \in 1..n : i # j => l[i] # l[j] } : n \in 0..MaxFiles }

\* prefix, digits and start_number a caller may pass; the last is the GUI's
RenameOptions ==
    { [prefix |-> <<>>, digits |-> 1, start_number |-> 1],
      [prefix |-> <<>>, digits |-> 1, start_number |-> 2],
      [prefix |-> <<>>, digits |-> 2, start_number |-> 0 - 1],
      [prefix |-> <<"v", "2", "_">>, digits |-> 2, start_number |-> 1],
      [prefix |-> <<"page_">>, digits |-> 3, start_number |-> 1] }

\* target_dir arguments: None (<<>>) or a directory
TargetDirArgs == { <<>>, OtherDir }

\* strftime('%Y%m%d_%H%M%S') of the clock: one name per second
Timestamp(t) == Zfill(DecimalStr(t), 2)

\* target_dir / f'.backup_{timestamp}'
BackupDir(tdir, t) == Append(tdir, <<".backup_">> \o Timestamp(t))

\* final_path.parent / f".tmp_{final_path.name}"
TempPath(final_path) == Path(final_path.parent, <<".tmp_">> \o final_path.name)

\* a mutation of Plan: every file gets the number start_number
PlanOneNumber(paths, tdir, pfx, dg, start) ==
    [i \in 1..Len(paths) |->
        [original_path |-> paths[i],
         final_path |-> Path(tdir, pfx \o Zfill(DecimalStr(start), dg)
                                      \o Suffix(paths[i].name)),
         number |-> start]]

\* a mutation of Plan: every other number is skipped
PlanSkipping(paths, tdir, pfx, dg, start) ==
    [i \in 1..Len(paths) |->
        [original_path |-> paths[i],
         final_path |-> Path(tdir, pfx \o Zfill(DecimalStr(start + 2 * (i - 1)), dg)
                                      \o Suffix(paths[i].name)),
         number |-> start + 2 * (i - 1)]]

\* the planning loop: one entry per file, numbered from start_number
Plan(paths, tdir, pfx, dg, start) ==
    [i \in 1..Len(paths) |->
        [original_path |-> paths[i],
         final_path |-> Path(tdir, pfx \o Zfill(DecimalStr(start + i - 1), dg)
                                      \o Suffix(paths[i].name)),
         number |-> start + i - 1]]

\* the files on disk after src has been moved onto dst
Moved(files, src, dst) ==
    [p \in (DOMAIN files \ {src}) \cup {dst} |->
        IF p = dst THEN files[src] ELSE files[p]]

\* Path.rename(dst): os.rename. An existing target is replaced on POSIX and
\* refused on Windows
OsRename(files, ds, src, dst, plat, fault) ==
    IF fault
    THEN [ok |-> FALSE, files |-> files, error |-> "PermissionError"]
    ELSE IF src \notin DOMAIN files \/ dst.parent \notin ds
    THEN [ok |-> FALSE, files |-> files, error |-> "FileNotFoundError"]
    ELSE IF src = dst
    THEN [ok |-> TRUE, files |-> files, error |-> ""]
    ELSE IF dst \in DOMAIN files /\ plat = "windows"
    THEN [ok |-> FALSE, files |-> files, error |-> "FileExistsError"]
    ELSE [ok |-> TRUE, files |-> Moved(files, src, dst), error |-> ""]

\* shutil.copy2(src, dst): an existing target is overwritten
CopyFile(files, ds, src, dst, fault) ==
    IF fault
    THEN [ok |-> FALSE, files |-> files, error |-> "PermissionError"]
    ELSE IF src \notin DOMAIN files \/ dst.parent \notin ds
    THEN [ok |-> FALSE, files |-> files, error |-> "FileNotFoundError"]
    ELSE [ok |-> TRUE,
          files |-> [p \in DOMAIN files \cup {dst} |->
                        IF p = dst THEN files[src] ELSE files[p]],
          error |-> ""]

\* a mutation of NeedsBackup: the dry run is not looked at
NeedsBackupAlways(bk, dr) == bk

\* `if backup and not self.dry_run`
NeedsBackup(bk, dr) == bk /\ ~dr

\* a mutation of SuccessEntry: an empty error message is recorded
SuccessEntryWithError(info) ==
    [original |-> info.original_path, new |-> info.final_path,
     number |-> info.number, success |-> TRUE, error |-> ""]

\* log_entry of a file whose rename went through, was skipped or was simulated
SuccessEntry(info) ==
    [original |-> info.original_path, new |-> info.final_path,
     number |-> info.number, success |-> TRUE]

\* a mutation of FailureEntry: the message of the error is not recorded
FailureEntryNoError(info, error) ==
    [original |-> info.original_path, new |-> info.final_path,
     number |-> info.number, success |-> FALSE]

\* log_entry of a file whose rename raised
FailureEntry(info, error) ==
    [original |-> info.original_path, new |-> info.final_path,
     number |-> info.number, success |-> FALSE, error |-> error]

\* one injected filesystem error, counted
Fault(fault) ==
    /\ fault => fs_faults < MaxFsFaults
    /\ fs_faults' = IF fault THEN fs_faults + 1 ELSE fs_faults

\* everything of a fresh ImageRenamer but its mode and the platform
RenamerStart ==
    /\ now = 0
    /\ fs = InitialFs
    /\ dirs = {FolderDir}
    /\ rn_pc = "idle"
    /\ file_paths = <<>>
    /\ target_dir = <<>>
    /\ prefix = <<>>
    /\ digits = 0
    /\ start_number = 0
    /\ backup = FALSE
    /\ backup_dir = <<>>
    /\ temp_renames = <<>>
    /\ rename_log = <<>>
    /\ idx = 0
    /\ restore_dir = <<>>
    /\ restore_todo = {}
    /\ restore_result = FALSE
    /\ fs_faults = 0
    /\ fs_at_call = InitialFs
    /\ dirs_at_call = {FolderDir}
    /\ backed_up = {}
    /\ target_dir_arg = <<>>
    /\ rerun = FALSE

RenamerInit ==
    /\ platform \in Platforms
    /\ dry_run \in BOOLEAN
    /\ RenamerStart

\* the renamer as the analyzer's specifications leave it: constructed, unused
RenamerAtRest ==
    /\ platform = "posix"
    /\ dry_run = TRUE
    /\ RenamerStart

\* the analyzer as the renamer's specification leaves it: constructed, unused
AnalyzerAtRest ==
    /\ AnalyzerInit
    /\ ENABLE_COMPARISON_CACHE = TRUE

\* a second passes between two calls
Tick ==
    /\ rn_pc \in {"idle", "returned"}
    /\ now < MaxClock
    /\ now' = now + 1
    /\ UNCHANGED << platform, fs, dirs, dry_run, rn_pc, file_paths, target_dir,
                    prefix, digits, start_number, backup, backup_dir,
                    temp_renames, rename_log, idx, restore_dir, restore_todo,
                    restore_result, fs_faults, fs_at_call, dirs_at_call,
                    backed_up, target_dir_arg, rerun,
                    analyzer_vars, detector_vars, gui_vars >>

\* set_dry_run(dry_run)
SetDryRun ==
    /\ rn_pc \in {"idle", "returned"}
    /\ dry_run' = ~dry_run
    /\ UNCHANGED << platform, now, fs, dirs, rn_pc, file_paths, target_dir,
                    prefix, digits, start_number, backup, backup_dir,
                    temp_renames, rename_log, idx, restore_dir, restore_todo,
                    restore_result, fs_faults, fs_at_call, dirs_at_call,
                    backed_up, target_dir_arg, rerun,
                    analyzer_vars, detector_vars, gui_vars >>

\* a mutation of AfterNoFiles: the empty list is answered with an exception
AfterNoFilesRaise == "raised"

\* `if not file_paths: ... return []`: how the call on an empty list ends
AfterNoFiles == "returned"

\* rename_files(file_paths, target_dir, prefix, digits, start_number, backup):
\* the empty-list return, the choice of target_dir, rename_log = []
RenameFilesCall(paths, tdir, pfx, dg, start, bk) ==
    /\ file_paths' = paths
    /\ target_dir_arg' = tdir
    /\ prefix' = pfx
    /\ digits' = dg
    /\ start_number' = start
    /\ backup' = bk
    /\ fs_at_call' = fs
    /\ dirs_at_call' = dirs
    /\ rename_log' = <<>>
    /\ backup_dir' = <<>>
    /\ temp_renames' = <<>>
    /\ backed_up' = {}
    /\ idx' = 0
    /\ IF paths = <<>>
       THEN /\ rn_pc' = AfterNoFiles
            /\ target_dir' = <<>>
       ELSE /\ target_dir' = IF tdir = <<>> THEN paths[1].parent ELSE tdir
            /\ rn_pc' = IF NeedsBackup(bk, dry_run) THEN "backup_mkdir" ELSE "plan"
    /\ UNCHANGED << platform, now, fs, dirs, dry_run, restore_dir, restore_todo,
                    restore_result, fs_faults, analyzer_vars, detector_vars, gui_vars >>

\* the first batch of a renamer: files of the scanned folder
RenameFiles ==
    \E paths \in FileLists : \E tdir \in TargetDirArgs :
    \E opt \in RenameOptions : \E bk \in BOOLEAN :
        /\ rn_pc = "idle"
        /\ rerun' = FALSE
        /\ RenameFilesCall(paths, tdir, opt.prefix, opt.digits, opt.start_number, bk)

\* the paths a returned batch logged as the new ones
ProducedPaths == [i \in 1..Len(rename_log) |-> rename_log[i].new]

\* rename_files once more, on the paths a batch without a failed entry
\* produced, with the same prefix, digits and start_number
RenameFilesAgain ==
    \E tdir \in {<<>>, target_dir} : \E bk \in BOOLEAN :
        /\ rn_pc = "returned"
        /\ ~rerun
        /\ rename_log # <<>>
        /\ \A i \in 1..Len(rename_log) : rename_log[i].success
        /\ rerun' = TRUE
        /\ RenameFilesCall(ProducedPaths, tdir, prefix, digits, start_number, bk)

\* _create_backup: the timestamp and backup_dir.mkdir(parents=True, exist_ok=True);
\* an error here is not caught and leaves rename_files
BackupMkdir ==
    \E fault \in BOOLEAN :
        /\ rn_pc = "backup_mkdir"
        /\ Fault(fault)
        /\ IF fault
           THEN /\ rn_pc' = "raised"
                /\ UNCHANGED << dirs, backup_dir, idx >>
           ELSE /\ backup_dir' = BackupDir(target_dir, now)
                /\ dirs' = dirs \cup {target_dir, BackupDir(target_dir, now)}
                /\ idx' = 1
                /\ rn_pc' = "backup_copy"
        /\ UNCHANGED << platform, now, fs, dry_run, file_paths, target_dir,
                        prefix, digits, start_number, backup, temp_renames,
                        rename_log, restore_dir, restore_todo, restore_result,
                        fs_at_call, dirs_at_call, backed_up, target_dir_arg, rerun,
                    analyzer_vars, detector_vars, gui_vars >>

\* a mutation of NextToCopy: a failed copy ends the copy loop
NextToCopyUnlessFailed(ok, i) == IF ok THEN i + 1 ELSE Len(file_paths) + 1

\* the copy loop goes on to the next file, whether the copy raised or not
NextToCopy(ok, i) == i + 1

\* _create_backup: one turn of the copy loop; an error is logged and skipped
BackupCopy ==
    \E fault \in BOOLEAN :
        LET src == file_paths[idx]
            res == CopyFile(fs, dirs, src, Path(backup_dir, src.name), fault)
        IN  /\ rn_pc = "backup_copy"
            /\ idx <= Len(file_paths)
            /\ Fault(fault)
            /\ fs' = res.files
            /\ backed_up' = IF res.ok THEN backed_up \cup {idx} ELSE backed_up
            /\ idx' = NextToCopy(res.ok, idx)
            /\ UNCHANGED << platform, now, dirs, dry_run, rn_pc, file_paths,
                            target_dir, prefix, digits, start_number, backup,
                            backup_dir, temp_renames, rename_log, restore_dir,
                            restore_todo, restore_result, fs_at_call,
                            dirs_at_call, target_dir_arg, rerun,
                    analyzer_vars, detector_vars, gui_vars >>

\* _create_backup returns once every file has had its turn
BackupDone ==
    /\ rn_pc = "backup_copy"
    /\ idx > Len(file_paths)
    /\ rn_pc' = "plan"
    /\ UNCHANGED << platform, now, fs, dirs, dry_run, file_paths, target_dir,
                    prefix, digits, start_number, backup, backup_dir,
                    temp_renames, rename_log, idx, restore_dir, restore_todo,
                    restore_result, fs_faults, fs_at_call, dirs_at_call,
                    backed_up, target_dir_arg, rerun,
                    analyzer_vars, detector_vars, gui_vars >>

\* the loop that fills temp_renames
PlanRenames ==
    /\ rn_pc = "plan"
    /\ temp_renames' = Plan(file_paths, target_dir, prefix, digits, start_number)
    /\ idx' = 1
    /\ rn_pc' = "execute"
    /\ UNCHANGED << platform, now, fs, dirs, dry_run, file_paths, target_dir,
                    prefix, digits, start_number, backup, backup_dir,
                    rename_log, restore_dir, restore_todo, restore_result,
                    fs_faults, fs_at_call, dirs_at_call, backed_up,
                    target_dir_arg, rerun,
                    analyzer_vars, detector_vars, gui_vars >>

\* a mutation of IsSamePath: no item is skipped
IsSamePathNever(original_path, final_path) == FALSE

\* `if original_path == final_path`: the item is skipped as a success
IsSamePath(original_path, final_path) == original_path = final_path

\* one turn of the execution loop, up to its first rename: the dry run, the
\* same-name skip, the direct rename, or the first half of the indirect one
ExecuteItem ==
    \E fault \in BOOLEAN :
        LET info == temp_renames[idx]
            original_path == info.original_path
            final_path == info.final_path
            simulated == dry_run \/ IsSamePath(original_path, final_path)
            indirect == final_path \in DOMAIN fs
            res == OsRename(fs, dirs, original_path,
                            IF indirect THEN TempPath(final_path) ELSE final_path,
                            platform, fault)
        IN  /\ rn_pc = "execute"
            /\ idx <= Len(temp_renames)
            /\ IF simulated
               THEN /\ ~fault
                    /\ rename_log' = Append(rename_log, SuccessEntry(info))
                    /\ idx' = idx + 1
                    /\ UNCHANGED << fs, fs_faults, rn_pc >>
               ELSE /\ Fault(fault)
                    /\ fs' = res.files
                    /\ IF ~res.ok
                       THEN /\ rename_log' =
                                  Append(rename_log, FailureEntry(info, res.error))
                            /\ idx' = idx + 1
                            /\ UNCHANGED rn_pc
                       ELSE IF indirect
                       THEN /\ rn_pc' = "rename_tmp"
                            /\ UNCHANGED << rename_log, idx >>
                       ELSE /\ rename_log' = Append(rename_log, SuccessEntry(info))
                            /\ idx' = idx + 1
                            /\ UNCHANGED rn_pc
            /\ UNCHANGED << platform, now, dirs, dry_run, file_paths, target_dir,
                            prefix, digits, start_number, backup, backup_dir,
                            temp_renames, restore_dir, restore_todo,
                            restore_result, fs_at_call, dirs_at_call, backed_up,
                            target_dir_arg, rerun,
                    analyzer_vars, detector_vars, gui_vars >>

\* the second half of the indirect rename: temp_path.rename(final_path)
RenameTemp ==
    \E fault \in BOOLEAN :
        LET info == temp_renames[idx]
            res == OsRename(fs, dirs, TempPath(info.final_path), info.final_path,
                            platform, fault)
        IN  /\ rn_pc = "rename_tmp"
            /\ Fault(fault)
            /\ fs' = res.files
            /\ rename_log' =
                  Append(rename_log,
                         IF res.ok THEN SuccessEntry(info)
                         ELSE FailureEntry(info, res.error))
            /\ idx' = idx + 1
            /\ rn_pc' = "execute"
            /\ UNCHANGED << platform, now, dirs, dry_run, file_paths, target_dir,
                            prefix, digits, start_number, backup, backup_dir,
                            temp_renames, restore_dir, restore_todo,
                            restore_result, fs_at_call, dirs_at_call, backed_up,
                            target_dir_arg, rerun,
                    analyzer_vars, detector_vars, gui_vars >>

\* return rename_log
RenameReturn ==
    /\ rn_pc = "execute"
    /\ idx > Len(temp_renames)
    /\ rn_pc' = "returned"
    /\ UNCHANGED << platform, now, fs, dirs, dry_run, file_paths, target_dir,
                    prefix, digits, start_number, backup, backup_dir,
                    temp_renames, rename_log, idx, restore_dir, restore_todo,
                    restore_result, fs_faults, fs_at_call, dirs_at_call,
                    backed_up, target_dir_arg, rerun,
                    analyzer_vars, detector_vars, gui_vars >>

\* directories a caller may name as a snapshot
RestoreArgs ==
    { BackupDir(d, t) : d \in {FolderDir, OtherDir}, t \in 0..MaxClock }

\* the files directly inside a directory
FilesIn(files, dir) == { p \in DOMAIN files : p.parent = dir }

\* a mutation of BackupPathExists: the directory is not looked for
BackupPathExistsAlways(dir, ds) == TRUE

\* backup_path.exists()
BackupPathExists(dir, ds) == dir \in ds

\* restore_from_backup(backup_dir): the existence check, the dry run, and the
\* start of the iteration over the snapshot
RestoreFromBackup ==
    \E dir \in RestoreArgs :
        /\ rn_pc \in {"idle", "returned"}
        /\ restore_dir' = dir
        /\ IF ~BackupPathExists(dir, dirs)
           THEN /\ restore_result' = FALSE
                /\ restore_todo' = {}
                /\ rn_pc' = "restored"
           ELSE IF dry_run \/ FilesIn(fs, dir) = {}
           THEN /\ restore_result' = TRUE
                /\ restore_todo' = {}
                /\ rn_pc' = "restored"
           ELSE /\ restore_todo' = FilesIn(fs, dir)
                /\ rn_pc' = "restore_copy"
                /\ UNCHANGED restore_result
        /\ UNCHANGED << platform, now, fs, dirs, dry_run, file_paths, target_dir,
                        prefix, digits, start_number, backup, backup_dir,
                        temp_renames, rename_log, idx, fs_faults, fs_at_call,
                        dirs_at_call, backed_up, target_dir_arg, rerun,
                    analyzer_vars, detector_vars, gui_vars >>

\* a mutation of RestoreTarget: the file is restored into the snapshot itself
RestoreTargetInPlace(backup_file) == backup_file

\* restore_path = backup_path.parent / backup_file.name
RestoreTarget(backup_file) ==
    Path(SubSeq(backup_file.parent, 1, Len(backup_file.parent) - 1),
         backup_file.name)

\* one turn of the restore loop, in whatever order iterdir() yields the files;
\* an error ends the restore with False
RestoreCopy ==
    \E backup_file \in restore_todo : \E fault \in BOOLEAN :
        LET res == CopyFile(fs, dirs, backup_file, RestoreTarget(backup_file), fault)
        IN  /\ rn_pc = "restore_copy"
            /\ Fault(fault)
            /\ fs' = res.files
            /\ IF ~res.ok
               THEN /\ restore_result' = FALSE
                    /\ restore_todo' = {}
                    /\ rn_pc' = "restored"
               ELSE /\ restore_todo' = restore_todo \ {backup_file}
                    /\ restore_result' = (restore_todo = {backup_file})
                    /\ rn_pc' = IF restore_todo = {backup_file}
                                THEN "restored" ELSE "restore_copy"
            /\ UNCHANGED << platform, now, dirs, dry_run, file_paths, target_dir,
                            prefix, digits, start_number, backup, backup_dir,
                            temp_renames, rename_log, idx, restore_dir,
                            fs_at_call, dirs_at_call, backed_up, target_dir_arg, rerun,
                    analyzer_vars, detector_vars, gui_vars >>

RenamerNext ==
    \/ Tick
    \/ SetDryRun
    \/ RenameFiles
    \/ BackupMkdir
    \/ BackupCopy
    \/ BackupDone
    \/ PlanRenames
    \/ ExecuteItem
    \/ RenameTemp
    \/ RenameReturn
    \/ RestoreFromBackup
    \/ RestoreCopy

\* ---------------------------------------------------------------- detector
\* longest list handed to the detector
MaxNames == 4

\* a character \d matches
IsDigit(c) == \E d \in 1..10 : DigitChars[d] = c

DigitValue(c) == (CHOOSE d \in 1..10 : DigitChars[d] = c) - 1

\* int(s) of a run of digits
RECURSIVE ParseInt(_)
ParseInt(s) ==
    IF s = <<>> THEN 0
    ELSE 10 * ParseInt(SubSeq(s, 1, Len(s) - 1)) + DigitValue(s[Len(s)])

\* a mutation of Stem: the extension is searched too
StemWithSuffix(name) == name

\* Path.stem: the name without its suffix
Stem(name) == SubSeq(name, 1, Len(name) - Len(Suffix(name)))

\* re.search(r'\d+', file_path.stem) and int(match.group()): <<>> when nothing
\* matches, else <<number>> of the first maximal run of digits
ExtractNumber(name) ==
    LET stem == Stem(name)
        hits == { i \in 1..Len(stem) : IsDigit(stem[i]) }
    IN  IF hits = {} THEN <<>>
        ELSE LET first == CHOOSE i \in hits : \A j \in hits : i <= j
                 last == CHOOSE k \in first..Len(stem) :
                             /\ \A j \in first..k : IsDigit(stem[j])
                             /\ k = Len(stem) \/ ~IsDigit(stem[k + 1])
             IN  << ParseInt(SubSeq(stem, first, last)) >>

\* the loop that collects `numbers`, in input order
RECURSIVE Numbers(_)
Numbers(paths) ==
    IF paths = <<>> THEN <<>>
    ELSE ExtractNumber(Head(paths).name) \o Numbers(Tail(paths))

\* min(numbers) and max(numbers) of a non-empty list
Min(numbers) ==
    CHOOSE n \in { numbers[i] : i \in 1..Len(numbers) } :
        \A i \in 1..Len(numbers) : n <= numbers[i]

Max(numbers) ==
    CHOOSE n \in { numbers[i] : i \in 1..Len(numbers) } :
        \A i \in 1..Len(numbers) : n >= numbers[i]

\* a mutation of Sorted: greatest first
RECURSIVE SortedDescending(_)
SortedDescending(S) ==
    IF S = {} THEN <<>>
    ELSE LET greatest == CHOOSE n \in S : \A k \in S : n >= k
         IN  <<greatest>> \o SortedDescending(S \ {greatest})

\* sorted(a set of integers)
RECURSIVE Sorted(_)
Sorted(S) ==
    IF S = {} THEN <<>>
    ELSE LET least == CHOOSE n \in S : \A k \in S : n <= k
         IN  <<least>> \o Sorted(S \ {least})

\* numbers.sort(): the list in ascending order, repetitions kept
RECURSIVE SortNumbers(_)
SortNumbers(numbers) ==
    IF numbers = <<>> THEN <<>>
    ELSE LET least == Min(numbers)
             at == CHOOSE i \in 1..Len(numbers) : numbers[i] = least
         IN  <<least>> \o SortNumbers(SubSeq(numbers, 1, at - 1)
                                      \o SubSeq(numbers, at + 1, Len(numbers)))

\* set(range(min(numbers), max(numbers) + 1))
Expected(numbers) == Min(numbers)..Max(numbers)

\* detect_missing(file_paths)
DetectMissingOf(paths) ==
    LET numbers == Numbers(paths)
    IN  IF numbers = <<>> THEN <<>>
        ELSE Sorted(Expected(numbers) \ { numbers[i] : i \in 1..Len(numbers) })

\* number_files = {}
EmptyDict == [n \in {} |-> <<>>]

\* the loop that fills number_files: number -> names, in input order
RECURSIVE NumberFiles(_, _)
NumberFiles(paths, number_files) ==
    IF paths = <<>> THEN number_files
    ELSE LET file_path == Head(paths)
             match == ExtractNumber(file_path.name)
         IN  IF match = <<>> THEN NumberFiles(Tail(paths), number_files)
             ELSE LET number == match[1]
                      files == IF number \in DOMAIN number_files
                               THEN number_files[number] ELSE <<>>
                  IN  NumberFiles(Tail(paths),
                         [n \in DOMAIN number_files \cup {number} |->
                             IF n = number THEN Append(files, file_path.name)
                             ELSE number_files[n]])

\* a mutation of IsDuplicated: every number that occurs is kept
IsDuplicatedAny(files) == Len(files) > 0

\* `if len(files) > 1`
IsDuplicated(files) == Len(files) > 1

\* detect_duplicates(file_paths)
DetectDuplicatesOf(paths) ==
    LET number_files == NumberFiles(paths, EmptyDict)
    IN  [n \in { k \in DOMAIN number_files : IsDuplicated(number_files[k]) } |->
            number_files[n]]

\* a mutation of ValidateSequenceOf: without a number the list is not valid
ValidateSequenceOfNumbered(paths) ==
    LET missing_numbers == DetectMissingOf(paths)
        duplicate_numbers == DetectDuplicatesOf(paths)
        numbers == Numbers(paths)
    IN  [is_valid |-> /\ Len(missing_numbers) = 0
                      /\ DOMAIN duplicate_numbers = {}
                      /\ numbers # <<>>,
         missing_numbers |-> missing_numbers,
         duplicate_numbers |-> duplicate_numbers,
         total_files |-> Len(paths),
         min_number |-> IF numbers # <<>> THEN <<Min(numbers)>> ELSE <<>>,
         max_number |-> IF numbers # <<>> THEN <<Max(numbers)>> ELSE <<>>]

\* validate_sequence(file_paths); None is <<>> and a number n is <<n>>
ValidateSequenceOf(paths) ==
    LET missing_numbers == DetectMissingOf(paths)
        duplicate_numbers == DetectDuplicatesOf(paths)
        numbers == Numbers(paths)
    IN  [is_valid |-> Len(missing_numbers) = 0 /\ DOMAIN duplicate_numbers = {},
         missing_numbers |-> missing_numbers,
         duplicate_numbers |-> duplicate_numbers,
         total_files |-> Len(paths),
         min_number |-> IF numbers # <<>> THEN <<Min(numbers)>> ELSE <<>>,
         max_number |-> IF numbers # <<>> THEN <<Max(numbers)>> ELSE <<>>]

\* the loop over the sorted numbers: (numbers[i], numbers[i + 1]) for every
\* position i of `at`, in ascending order of i
RECURSIVE GapPairs(_, _)
GapPairs(numbers, at) ==
    IF at = {} THEN <<>>
    ELSE LET i == CHOOSE k \in at : \A j \in at : k <= j
         IN  << <<numbers[i], numbers[i + 1]>> >> \o GapPairs(numbers, at \ {i})

\* a mutation of IsGap: consecutive numbers count as a gap too
IsGapOrStep(a, b) == b - a > 0

\* `if numbers[i + 1] - numbers[i] > 1`
IsGap(a, b) == b - a > 1

\* get_sequence_gaps(file_paths): the neighbours of the sorted numbers that
\* are more than 1 apart
GetSequenceGapsOf(paths) ==
    LET numbers == SortNumbers(Numbers(paths))
    IN  GapPairs(numbers,
                 { i \in 1..(Len(numbers) - 1) : IsGap(numbers[i], numbers[i + 1]) })

\* file names handed to the detector: plain, zero-padded, two-digit, with a
\* second run of digits, with digits in the suffix only, and without a digit
DetectorNames ==
    { <<"1", ".", "jpg">>,
      <<"0", "2", ".", "jpg">>,
      <<"p", "2", "_", "9", ".", "jpg">>,
      <<"4", ".", "jpg">>,
      <<"5", ".", "jpg">>,
      <<"1", "0", ".", "jpg">>,
      <<"a", ".", "7", "z">>,
      <<"b", ".", "jpg">> }

\* lists of distinct files of one folder
DetectorInputs ==
    UNION { { l \in [1..n -> { Path(FolderDir, name) : name \in DetectorNames }] :
                \A i, j \in 1..n : i # j => l[i] # l[j] } : n \in 0..MaxNames }

\* the detector before any list is handed to it
DetectorAtRest ==
    /\ det_ready = FALSE
    /\ det_files = <<>>
    /\ validation = <<>>
    /\ missing = <<>>
    /\ duplicates = <<>>
    /\ gaps = <<>>

\* a list of files is at hand
DetectorInit ==
    /\ det_ready = TRUE
    /\ det_files \in DetectorInputs
    /\ validation = <<>>
    /\ missing = <<>>
    /\ duplicates = <<>>
    /\ gaps = <<>>

\* validate_sequence(file_paths)
ValidateSequence ==
    /\ det_ready
    /\ validation = <<>>
    /\ validation' = << ValidateSequenceOf(det_files) >>
    /\ UNCHANGED << det_ready, det_files, missing, duplicates, gaps,
                    analyzer_vars, renamer_vars, gui_vars >>

\* detect_missing(file_paths)
DetectMissing ==
    /\ det_ready
    /\ missing = <<>>
    /\ missing' = << DetectMissingOf(det_files) >>
    /\ UNCHANGED << det_ready, det_files, validation, duplicates, gaps,
                    analyzer_vars, renamer_vars, gui_vars >>

\* detect_duplicates(file_paths)
DetectDuplicates ==
    /\ det_ready
    /\ duplicates = <<>>
    /\ duplicates' = << DetectDuplicatesOf(det_files) >>
    /\ UNCHANGED << det_ready, det_files, validation, missing, gaps,
                    analyzer_vars, renamer_vars, gui_vars >>

\* get_sequence_gaps(file_paths)
GetSequenceGaps ==
    /\ det_ready
    /\ gaps = <<>>
    /\ gaps' = << GetSequenceGapsOf(det_files) >>
    /\ UNCHANGED << det_ready, det_files, validation, missing, duplicates,
                    analyzer_vars, renamer_vars, gui_vars >>

DetectorNext ==
    \/ ValidateSequence
    \/ DetectMissing
    \/ DetectDuplicates
    \/ GetSequenceGaps

\* the planned paths of the returned log that are on disk, in log order
RenamedFiles ==
    LET OnDisk(entry) == entry.new \in DOMAIN fs
        kept == SelectSeq(rename_log, OnDisk)
    IN  [i \in 1..Len(kept) |-> kept[i].new]

\* the files a returned batch has produced are handed to the detector
ListRenamed ==
    /\ rn_pc = "returned"
    /\ file_paths # <<>>
    /\ ~det_ready
    /\ det_ready' = TRUE
    /\ det_files' = RenamedFiles
    /\ UNCHANGED << validation, missing, duplicates, gaps,
                    analyzer_vars, renamer_vars, gui_vars >>

\* a rename batch, then the validation and the gaps of what it produced
RoundTripNext ==
    \/ SetDryRun
    \/ RenameFiles
    \/ BackupMkdir
    \/ BackupCopy
    \/ BackupDone
    \/ PlanRenames
    \/ ExecuteItem
    \/ RenameTemp
    \/ RenameReturn
    \/ ListRenamed
    \/ ValidateSequence
    \/ GetSequenceGaps

\* --------------------------------------------------------------------- GUI
\* analysis threads alive at one time
MaxThreads == 2

Threads == 1..MaxThreads

\* folders the user may choose
GuiFolders == {1, 2}

\* scanner.scan_folder(folder): the image files of the folder, each file
\* named by a number that stays with it when it is renamed
ScanResult(folder) == IF folder = 1 THEN <<1, 2>> ELSE <<3, 4>>

\* the orders a list without repetition can be put in
Orderings(s) ==
    { t \in [1..Len(s) -> { s[i] : i \in 1..Len(s) }] :
          \A i, j \in 1..Len(s) : i # j => t[i] # t[j] }

\* a thread slot that holds no thread
NoThread == [pc |-> "none", image_paths |-> <<>>]

\* MangaRenamerGUI.__init__
GuiInit ==
    /\ current_folder = 0
    /\ image_files = <<>>
    /\ gui_sorted_paths = <<>>
    /\ analysis_in_progress = FALSE
    /\ vlm_analyzer_loaded = FALSE
    /\ threads = [t \in Threads |-> NoThread]
    /\ rename_pc = "idle"
    /\ ordered_paths = <<>>
    /\ rename_message = "none"

\* _load_model: self.vlm_analyzer = VLMAnalyzer(...)
LoadModel ==
    /\ rename_pc = "idle"
    /\ ~vlm_analyzer_loaded
    /\ vlm_analyzer_loaded' = TRUE
    /\ UNCHANGED << current_folder, image_files, gui_sorted_paths,
                    analysis_in_progress, threads, rename_pc, ordered_paths,
                    rename_message, analyzer_vars, renamer_vars, detector_vars >>

\* _browse_folder: the user picks a folder
BrowseFolder ==
    \E folder \in GuiFolders :
        /\ rename_pc = "idle"
        /\ current_folder' = folder
        /\ UNCHANGED << image_files, gui_sorted_paths, analysis_in_progress,
                        vlm_analyzer_loaded, threads, rename_pc, ordered_paths,
                        rename_message, analyzer_vars, renamer_vars, detector_vars >>

\* _scan_folder: self.image_files = self.scanner.scan_folder(folder)
ScanFolder ==
    /\ rename_pc = "idle"
    /\ current_folder # 0
    /\ image_files' = ScanResult(current_folder)
    /\ UNCHANGED << current_folder, gui_sorted_paths, analysis_in_progress,
                    vlm_analyzer_loaded, threads, rename_pc, ordered_paths,
                    rename_message, analyzer_vars, renamer_vars, detector_vars >>

\* `if self.analysis_in_progress: ... return`
MayAnalyze(in_progress, ths) == ~in_progress

\* _analyze_images on the GUI thread: the three checks and
\* threading.Thread(target=analysis_thread).start()
AnalyzeImages ==
    \E t \in Threads :
        /\ rename_pc = "idle"
        /\ vlm_analyzer_loaded
        /\ image_files # <<>>
        /\ MayAnalyze(analysis_in_progress, threads)
        /\ threads[t].pc \in {"none", "finished"}
        /\ threads' = [threads EXCEPT ![t] = [pc |-> "spawned", image_paths |-> <<>>]]
        /\ UNCHANGED << current_folder, image_files, gui_sorted_paths,
                        analysis_in_progress, vlm_analyzer_loaded, rename_pc,
                        ordered_paths,
                        rename_message, analyzer_vars, renamer_vars, detector_vars >>

\* analysis_thread: self.analysis_in_progress = True
ThreadBegin(t) ==
    /\ threads[t].pc = "spawned"
    /\ analysis_in_progress' = TRUE
    /\ threads' = [threads EXCEPT ![t].pc = "started"]
    /\ UNCHANGED << current_folder, image_files, gui_sorted_paths,
                    vlm_analyzer_loaded, rename_pc, ordered_paths,
                    rename_message, analyzer_vars, renamer_vars, detector_vars >>

\* analysis_thread: image_paths is read off self.image_files and
\* sort_images_by_content is called
ThreadSort(t) ==
    /\ threads[t].pc = "started"
    /\ threads' = [threads EXCEPT ![t] = [pc |-> "sorting", image_paths |-> image_files]]
    /\ UNCHANGED << current_folder, image_files, gui_sorted_paths,
                    analysis_in_progress, vlm_analyzer_loaded, rename_pc,
                    ordered_paths,
                    rename_message, analyzer_vars, renamer_vars, detector_vars >>

\* analysis_thread: the sort returns and self.sorted_paths is assigned, or
\* something raises and the except branch reports it
ThreadSortReturn(t) ==
    \E raised \in BOOLEAN : \E result \in Orderings(threads[t].image_paths) :
        /\ threads[t].pc = "sorting"
        /\ IF raised
           THEN /\ threads' = [threads EXCEPT ![t].pc = "failed"]
                /\ UNCHANGED gui_sorted_paths
           ELSE /\ threads' = [threads EXCEPT ![t].pc = "sorted"]
                /\ gui_sorted_paths' = result
        /\ UNCHANGED << current_folder, image_files, analysis_in_progress,
                        vlm_analyzer_loaded, rename_pc, ordered_paths,
                        rename_message, analyzer_vars, renamer_vars, detector_vars >>

\* analysis_thread: finally: self.analysis_in_progress = False
ThreadFinally(t) ==
    /\ threads[t].pc \in {"sorted", "failed"}
    /\ analysis_in_progress' = FALSE
    /\ threads' = [threads EXCEPT ![t].pc = "finished"]
    /\ UNCHANGED << current_folder, image_files, gui_sorted_paths,
                    vlm_analyzer_loaded, rename_pc, ordered_paths,
                    rename_message, analyzer_vars, renamer_vars, detector_vars >>

\* `if not self.sorted_paths: ... return`
MayRename(paths, ths) == paths # <<>>

\* _execute_rename on the GUI thread: the check, the confirmation, and the
\* call of rename_by_order(self.sorted_paths, ...)
ExecuteRename ==
    /\ rename_pc = "idle"
    /\ MayRename(gui_sorted_paths, threads)
    /\ rename_pc' = "renaming"
    /\ ordered_paths' = gui_sorted_paths
    /\ UNCHANGED << current_folder, image_files, gui_sorted_paths,
                    analysis_in_progress, vlm_analyzer_loaded, threads,
                    rename_message, analyzer_vars, renamer_vars, detector_vars >>

\* _execute_rename: rename_by_order returns and the folder is scanned again,
\* or it raises and the except branch reports it
ExecuteRenameEnd ==
    \E raised \in BOOLEAN :
        /\ rename_pc = "renaming"
        /\ rename_pc' = "idle"
        /\ ordered_paths' = <<>>
        /\ image_files' = IF raised THEN image_files ELSE ScanResult(current_folder)
        /\ rename_message' = IF raised THEN "error" ELSE "done"
        /\ UNCHANGED << current_folder, gui_sorted_paths, analysis_in_progress,
                        vlm_analyzer_loaded, threads,
                        analyzer_vars, renamer_vars, detector_vars >>

GuiNext ==
    \/ LoadModel
    \/ BrowseFolder
    \/ ScanFolder
    \/ AnalyzeImages
    \/ \E t \in Threads : ThreadBegin(t)
    \/ \E t \in Threads : ThreadSort(t)
    \/ \E t \in Threads : ThreadSortReturn(t)
    \/ \E t \in Threads : ThreadFinally(t)
    \/ ExecuteRename
    \/ ExecuteRenameEnd

\* a fresh analyzer beside a renamer, a detector and a window that are never
\* used
Init == AnalyzerInit /\ RenamerAtRest /\ DetectorAtRest /\ GuiInit

\* a fresh renamer, in either mode, beside an analyzer and a detector that
\* are never used
InitRenamer == AnalyzerAtRest /\ RenamerInit /\ DetectorAtRest /\ GuiInit

\* a detector with a list of files, beside an analyzer and a renamer that are
\* never used
InitDetector == AnalyzerAtRest /\ RenamerAtRest /\ DetectorInit /\ GuiInit

\* the window as __init__ leaves it, its analyzer, renamer and detector being
\* followed no further than their calls
InitGui == AnalyzerAtRest /\ RenamerAtRest /\ DetectorAtRest /\ GuiInit

\* the window: the user's clicks and the analysis threads, in any interleaving
SpecGui == InitGui /\ [][GuiNext]_vars

\* every method of the detector, once, on one list of files
SpecDetector == InitDetector /\ [][DetectorNext]_vars

\* one rename batch and the detector on its result
SpecRoundTrip == InitRenamer /\ [][RoundTripNext]_vars

\* one rename batch, and a restore before or after it
SpecRenamer == InitRenamer /\ [][RenamerNext]_vars

\* a batch, and the same batch once more on the paths it produced
RerunNext ==
    \/ Tick
    \/ SetDryRun
    \/ RenameFiles
    \/ RenameFilesAgain
    \/ BackupMkdir
    \/ BackupCopy
    \/ BackupDone
    \/ PlanRenames
    \/ ExecuteItem
    \/ RenameTemp
    \/ RenameReturn

SpecRerun == InitRenamer /\ [][RerunNext]_vars

AnalyzerNext ==
    \/ CompareImagesOrder
    \/ ClearCache
    \/ SortImagesByContent
    \/ CountRunStep
    \/ BinarySortStep

\* every use of one analyzer: direct comparisons, cache clears and sorts
SpecAnalyzer == Init /\ [][AnalyzerNext]_vars

\* the cache alone: every sequence of compare_images_order calls (a sort
\* issues such a sequence) and cache clears
CacheNext ==
    \/ CompareImagesOrder
    \/ ClearCache

SpecCache == Init /\ [][CacheNext]_vars

\* one sort on a freshly constructed analyzer
SortNext ==
    \/ (sort_pc = "idle" /\ SortImagesByContent)
    \/ CountRunStep
    \/ BinarySortStep

SpecSort == Init /\ [][SortNext]_vars

\* the same sort, with sorted() going on to its next comparison as long as
\* there is one: each comparison returns, by a verdict or by the except branch
SpecSortFair ==
    /\ Init
    /\ [][SortNext]_vars
    /\ WF_vars(CountRunStep)
    /\ WF_vars(BinarySortStep)

\* ------------------------------------------------------- analyzer: claims

\* the number of times x occurs in s
Count(s, x) == Cardinality({ i \in 1..Len(s) : s[i] = x })

\* s and t hold the same items, each the same number of times
IsPermutation(s, t) ==
    /\ Len(s) = Len(t)
    /\ \A x \in Images : Count(s, x) = Count(t, x)

\* C2 as stated: with caching enabled the model is called at most once per
\* unordered pair while the cache lives.
C2_OracleCalledAtMostOnce ==
    ENABLE_COMPARISON_CACHE => \A p \in Pairs : oracle_calls[p] <= 1

\* C2, amended: with caching enabled at most one model call per unordered pair
\* returns a verdict, whatever the order of the queries; a second call for the
\* pair happens only after a comparison that failed.
C2_OracleAnswersAtMostOnce ==
    ENABLE_COMPARISON_CACHE =>
        \A p \in Pairs :
            /\ oracle_verdicts[p] <= 1
            /\ oracle_calls[p] > 1 => oracle_faults > 0

\* C2 witness: a pair answered once by the model is asked again in the
\* reverse order and served from the cache.
C2_Witness ==
    /\ ENABLE_COMPARISON_CACHE
    /\ last_compare.stored = "reverse"
    /\ ~last_compare.invoked
    /\ oracle_verdicts[{last_compare.img1, last_compare.img2}] = 1
    /\ oracle_calls[{last_compare.img1, last_compare.img2}] = 1

\* one step seen from the entry (a, b) of the cache: a compare_images_order
\* call on a or b in either order is served from the entry, and the entry
\* stays as it is until the cache is cleared
C3_Step(a, b) ==
    LET v == comparison_cache[<<a, b>>]
        c == last_compare'
    IN  /\ (c # last_compare /\ {c.img1, c.img2} = {a, b}) =>
              /\ c.result = IF c.img1 = a THEN v ELSE -v
              /\ ~c.invoked
              /\ oracle_calls' = oracle_calls
              /\ comparison_cache' = comparison_cache
        /\ comparison_cache' # EmptyCache =>
              /\ <<a, b>> \in DOMAIN comparison_cache'
              /\ comparison_cache'[<<a, b>>] = v

\* C3: with caching enabled, once v is stored for (A, B), a later
\* compare_images_order(B, A) returns -v and compare_images_order(A, B) returns
\* v, both without a model call (A and B two different images).
C3_CachedVerdictServed ==
    [][ENABLE_COMPARISON_CACHE =>
          \A a \in Images : \A b \in Images \ {a} :
              <<a, b>> \in DOMAIN comparison_cache => C3_Step(a, b)]_vars

\* C3 witness: a non-zero verdict stored for (B, A) was served inverted to a
\* call (A, B).
C3_Witness ==
    /\ ENABLE_COMPARISON_CACHE
    /\ last_compare.stored = "reverse"
    /\ last_compare.result = 1
    /\ comparison_cache[<<last_compare.img2, last_compare.img1>>] = -1

\* C7: a comparison that raises during a sort returns 0, the sort goes on, and
\* the list returned is a permutation of the input.
C7_SortSurvivesOracleFailure ==
    /\ last_compare.raised => last_compare.result = 0
    /\ (sort_fault_seen /\ sort_pc \in {"count_run", "binarysort"}) =>
          ENABLED (CountRunStep \/ BinarySortStep)
    /\ (sort_fault_seen /\ sort_pc = "done") =>
          IsPermutation(sorted_paths, image_paths)

\* C7 witness: a sort of three images, one of whose comparisons raised, has
\* returned a reordered list.
C7_Witness ==
    /\ sort_pc = "done"
    /\ sort_fault_seen
    /\ Len(image_paths) = 3
    /\ sorted_paths # image_paths

\* C8: if every comparison of a sort yields 0, the sort returns the items in
\* their input order.
C8_UnknownKeepsInputOrder ==
    (sort_pc = "done" /\ sort_unknown_only) => sorted_paths = image_paths

\* C8 witness: a sort of three images whose comparisons all yielded 0.
C8_Witness ==
    /\ sort_pc = "done"
    /\ sort_unknown_only
    /\ Len(image_paths) = 3
    /\ current_comparison >= 2

\* a sort_images_by_content call on at most one item has just returned
C9_ShortSortReturns ==
    /\ sort_pc' = "done"
    /\ Len(image_paths') <= 1
    /\ sort_pc \in {"idle", "done"}

\* C9: a sort of 0 or 1 items returns its input, calls neither the model nor
\* the progress callback, and leaves the cache as it was.
C9_ShortInputUntouched ==
    /\ []((sort_pc = "done" /\ Len(image_paths) <= 1) =>
             /\ sorted_paths = image_paths
             /\ current_comparison = 0
             /\ progress_calls = <<>>)
    /\ [][C9_ShortSortReturns =>
             /\ comparison_cache' = comparison_cache
             /\ oracle_calls' = oracle_calls
             /\ oracle_verdicts' = oracle_verdicts
             /\ oracle_faults' = oracle_faults]_vars

\* C9 witness: a one-item sort, given a progress callback, has returned on an
\* analyzer whose cache is not empty.
C9_Witness ==
    /\ sort_pc = "done"
    /\ Len(image_paths) = 1
    /\ progress_callback
    /\ comparison_cache # EmptyCache

\* -------------------------------------------------------- renamer: claims

\* rename_files is running (between its call and its return)
InRenameFiles ==
    rn_pc \in {"backup_mkdir", "backup_copy", "plan", "execute", "rename_tmp"}

\* the execution loop has handled every planned item: rename_files returns
RenameFinished == rn_pc = "execute" /\ idx > Len(temp_renames)

\* the planned names are the names the files of the batch hold now
IsNamePermutation ==
    { temp_renames[i].final_path : i \in 1..Len(temp_renames) }
        = { file_paths[i] : i \in 1..Len(file_paths) }

\* C1: when the planned names are a permutation of the batch's own names and
\* no filesystem error occurs, a non-dry-run rename_files ends with every
\* entry a success and every planned path holding the content its original
\* path held at the call.
C1_PermutationRenamed ==
    (RenameFinished /\ ~dry_run /\ fs_faults = 0 /\ IsNamePermutation) =>
        \A i \in 1..Len(temp_renames) :
            /\ rename_log[i].success
            /\ temp_renames[i].final_path \in DOMAIN fs
            /\ fs[temp_renames[i].final_path] = fs_at_call[file_paths[i]]

\* C4: a dry run logs one success entry per file and changes nothing on disk:
\* no file renamed, no snapshot directory made, also with backup = True.
C4_DryRunTouchesNothing ==
    (dry_run /\ (InRenameFiles \/ (rn_pc = "returned" /\ file_paths = <<>>))) =>
        /\ fs = fs_at_call
        /\ dirs = dirs_at_call
        /\ backup_dir = <<>>
        /\ rn_pc \in {"plan", "execute", "returned"}
        /\ \A i \in 1..Len(rename_log) : rename_log[i].success
        /\ RenameFinished =>
              /\ Len(rename_log) = Len(file_paths)
              /\ \A i \in 1..Len(file_paths) :
                    rename_log[i].original = file_paths[i]

\* C4 witness: a dry run with backup = True over three files, one of whose
\* planned names is taken, has handled every item.
C4_Witness ==
    /\ RenameFinished
    /\ dry_run
    /\ backup
    /\ Len(file_paths) = 3
    /\ \E i \in 1..3 : /\ temp_renames[i].final_path \in DOMAIN fs
                       /\ temp_renames[i].final_path # file_paths[i]

\* C5: outside dry run, an item whose rename raises gets a failed entry with
\* the error message and the loop goes on: the log grows by one entry per item
\* and at the end holds one entry per input file, in input order.
C5_FailureIsolated ==
    (~dry_run /\ rn_pc \in {"execute", "rename_tmp"}) =>
        /\ Len(rename_log) = idx - 1
        /\ \A i \in 1..Len(rename_log) :
              /\ rename_log[i].original = file_paths[i]
              /\ rename_log[i].new = temp_renames[i].final_path
              /\ rename_log[i].number = temp_renames[i].number
              /\ ~rename_log[i].success =>
                    /\ "error" \in DOMAIN rename_log[i]
                    /\ rename_log[i].error # ""
        /\ RenameFinished => Len(rename_log) = Len(file_paths)

\* C5 witness: the first of three renames failed and the third went through.
C5_Witness ==
    /\ RenameFinished
    /\ ~dry_run
    /\ Len(file_paths) = 3
    /\ ~rename_log[1].success
    /\ rename_log[3].success
    /\ rename_log[3].original # rename_log[3].new

\* C6: at every point of a non-dry-run rename_files the content of every
\* input file is held by some file on disk.
C6_NoContentLost ==
    (~dry_run /\ InRenameFiles) =>
        \A i \in 1..Len(file_paths) :
            \E p \in DOMAIN fs : fs[p] = fs_at_call[file_paths[i]]

\* a restore of the snapshot of this batch has returned True outside dry run
RestoredThisSnapshot ==
    /\ rn_pc = "restored"
    /\ restore_result
    /\ ~dry_run
    /\ backup_dir # <<>>
    /\ restore_dir = backup_dir

\* input file i is back in the snapshot's parent, name and content
RestoredInput(i) ==
    LET p == Path(target_dir, file_paths[i].name)
    IN  /\ p \in DOMAIN fs
        /\ fs[p] = fs_at_call[file_paths[i]]

\* C10 as stated: after a batch with a snapshot, a restore of that snapshot
\* puts every input file, original name and content, into the snapshot's
\* parent directory.
C10_RestoreAllInputs ==
    RestoredThisSnapshot => \A i \in 1..Len(file_paths) : RestoredInput(i)

\* C10, amended: the restore puts there every input file whose copy into the
\* snapshot succeeded, whatever was renamed after the snapshot was taken.
C10_RestoreBackedUpInputs ==
    RestoredThisSnapshot => \A i \in backed_up : RestoredInput(i)

\* C10 witness: three files were backed up, renamed onto each other's names,
\* and restored.
C10_Witness ==
    /\ RestoredThisSnapshot
    /\ backed_up = {1, 2, 3}
    /\ IsNamePermutation
    /\ \A i \in 1..3 : rename_log[i].success /\ file_paths[i] # temp_renames[i].final_path

\* ------------------------------------------------------- detector: claims

\* the batch has returned, every entry is a success and every planned path is
\* on disk and has been handed to the detector
RenamedToSequence ==
    /\ rn_pc = "returned"
    /\ det_ready
    /\ file_paths # <<>>
    /\ Len(rename_log) = Len(file_paths)
    /\ \A i \in 1..Len(rename_log) : rename_log[i].success
    /\ Len(det_files) = Len(file_paths)

\* the detector finds the files to be a complete sequence
ReportsCompleteSequence ==
    /\ validation # <<>> =>
          /\ validation[1].is_valid
          /\ validation[1].missing_numbers = <<>>
    /\ gaps # <<>> => gaps[1] = <<>>

\* C11 as stated: whatever the prefix, the digits and the start number, the
\* files a batch has renamed validate as a complete sequence: is_valid, no
\* missing number, no gap.
C11_RoundTripValid ==
    RenamedToSequence => ReportsCompleteSequence

\* C11, amended: this holds when the prefix holds no decimal digit and the
\* start number is not negative.
C11_RoundTripValidPlainPrefix ==
    (/\ RenamedToSequence
     /\ \A i \in 1..Len(prefix) : ~IsDigit(prefix[i])
     /\ start_number >= 0) => ReportsCompleteSequence

\* C11 witness: three files renamed to page_001 .. page_003 have been
\* validated and searched for gaps.
C11_Witness ==
    /\ RenamedToSequence
    /\ Len(file_paths) = 3
    /\ prefix = <<"page_">>
    /\ \A i \in 1..3 : file_paths[i] # rename_log[i].new
    /\ validation # <<>>
    /\ gaps # <<>>

\* the positions of the list whose file yields a number, and that number
YieldsNumber(i) == ExtractNumber(det_files[i].name) # <<>>

NumberOf(i) == ExtractNumber(det_files[i].name)[1]

YieldedNumbers == { NumberOf(i) : i \in { k \in 1..Len(det_files) : YieldsNumber(k) } }

\* C12: when some file yields a number, validate_sequence reports as missing
\* exactly the integers between the least and the greatest yielded number that
\* no file yields, in ascending order, reports that least and greatest number
\* as min_number and max_number, and is_valid exactly when nothing is missing
\* and nothing is duplicated.
C12_ValidateReportsMissing ==
    (validation # <<>> /\ YieldedNumbers # {}) =>
        LET v == validation[1]
            least == CHOOSE n \in YieldedNumbers : \A k \in YieldedNumbers : n <= k
            greatest == CHOOSE n \in YieldedNumbers : \A k \in YieldedNumbers : n >= k
        IN  /\ v.min_number = <<least>>
            /\ v.max_number = <<greatest>>
            /\ { v.missing_numbers[i] : i \in 1..Len(v.missing_numbers) }
                  = { n \in least..greatest : n \notin YieldedNumbers }
            /\ \A i \in 1..(Len(v.missing_numbers) - 1) :
                  v.missing_numbers[i] < v.missing_numbers[i + 1]
            /\ v.is_valid <=> (/\ v.missing_numbers = <<>>
                               /\ DOMAIN v.duplicate_numbers = {})

\* C12 witness: files yielding 1, 2, 4 and 5 have been validated: 3 is
\* missing, nothing is duplicated, the sequence is not valid, from 1 to 5.
C12_Witness ==
    /\ validation # <<>>
    /\ Len(det_files) = 4
    /\ YieldedNumbers = {1, 2, 4, 5}
    /\ validation[1].missing_numbers = <<3>>
    /\ DOMAIN validation[1].duplicate_numbers = {}
    /\ ~validation[1].is_valid
    /\ validation[1].min_number = <<1>>
    /\ validation[1].max_number = <<5>>

\* the names of the files that yield n, in input order
NamesYielding(n) ==
    LET Yields(file_path) == ExtractNumber(file_path.name) = <<n>>
        kept == SelectSeq(det_files, Yields)
    IN  [i \in 1..Len(kept) |-> kept[i].name]

\* C13: the keys of detect_duplicates are exactly the numbers that more than
\* one file yields, and each is mapped to the names of all and only the files
\* that yield it, in input order; files without a number play no part.
C13_DuplicatesGrouped ==
    duplicates # <<>> =>
        /\ DOMAIN duplicates[1] =
              { n \in YieldedNumbers :
                  Cardinality({ i \in 1..Len(det_files) :
                                  YieldsNumber(i) /\ NumberOf(i) = n }) > 1 }
        /\ \A n \in DOMAIN duplicates[1] : duplicates[1][n] = NamesYielding(n)

\* C13 witness: of four files two yield 2, one yields another number and one
\* yields none; detect_duplicates has grouped the two under 2.
C13_Witness ==
    /\ duplicates # <<>>
    /\ Len(det_files) = 4
    /\ \E i \in 1..4 : ~YieldsNumber(i)
    /\ \E i \in 1..4 : YieldsNumber(i) /\ NumberOf(i) # 2
    /\ DOMAIN duplicates[1] = {2}
    /\ Len(duplicates[1][2]) = 2

\* ------------------------------------------------ renamer: further claims

\* the plan of a batch has been made
Planned == rn_pc \in {"execute", "rename_tmp"} \/ (rn_pc = "returned" /\ file_paths # <<>>)

\* pad is n written in decimal, zero-padded to at least `width` characters
IsZeroPadded(pad, n, width) ==
    LET body == IF n < 0 THEN Tail(pad) ELSE pad
        magnitude == IF n < 0 THEN 0 - n ELSE n
    IN  /\ Len(pad) >= width
        /\ n < 0 => pad[1] = "-"
        /\ Len(body) >= 1
        /\ \A i \in 1..Len(body) : IsDigit(body[i])
        /\ ParseInt(body) = magnitude
        \* no more zeros than the width asks for
        /\ Len(pad) > width => (body[1] # "0" \/ Len(body) = 1)

\* C14: the file at position i (from 1) is planned as target_dir / (prefix,
\* then start_number + i - 1 zero-padded to at least `digits` characters, then
\* the file's extension), with that number in its log entry; target_dir is the
\* parent of the first file when none is given.
C14_PlannedNames ==
    Planned =>
        /\ Len(temp_renames) = Len(file_paths)
        /\ target_dir_arg = <<>> => target_dir = file_paths[1].parent
        /\ target_dir_arg # <<>> => target_dir = target_dir_arg
        /\ \A i \in 1..Len(temp_renames) :
              LET plan == temp_renames[i]
                  name == plan.final_path.name
                  extension == <<".", "jpg">>
                  pad == SubSeq(name, Len(prefix) + 1, Len(name) - Len(extension))
              IN  /\ plan.original_path = file_paths[i]
                  /\ plan.number = start_number + i - 1
                  /\ plan.final_path.parent = target_dir
                  /\ SubSeq(name, 1, Len(prefix)) = prefix
                  /\ SubSeq(name, Len(name) - 1, Len(name)) = extension
                  /\ SubSeq(file_paths[i].name, Len(file_paths[i].name) - 1,
                            Len(file_paths[i].name)) = extension
                  /\ IsZeroPadded(pad, plan.number, digits)
                  /\ i <= Len(rename_log) => rename_log[i].number = plan.number

\* C14 witness: three files planned as page_001.jpg .. page_003.jpg in the
\* folder of the first, no target_dir given, and all three logged.
C14_Witness ==
    /\ RenameFinished
    /\ Len(file_paths) = 3
    /\ target_dir_arg = <<>>
    /\ prefix = <<"page_">>
    /\ digits = 3
    /\ temp_renames[3].final_path
          = Path(file_paths[1].parent, <<"page_", "0", "0", "3", ".", "jpg">>)
    /\ rename_log[3].number = 3

\* a call of restore_from_backup: the step that leaves the renamer's rest
RestoreCalled == rn_pc \in {"idle", "returned"} /\ rn_pc' \in {"restored", "restore_copy"}

\* every file of the snapshot is in the snapshot's parent, name and content
SnapshotCopiedBack ==
    \A p \in FilesIn(fs, restore_dir) :
        /\ RestoreTarget(p) \in DOMAIN fs
        /\ fs[RestoreTarget(p)] = fs[p]

\* C15: restore_from_backup returns False when the snapshot directory does
\* not exist and when a copy raises; it returns True when every file of the
\* snapshot has been copied into the snapshot's parent; in dry run, with the
\* snapshot there, it returns True at once and copies nothing.
C15_RestoreResult ==
    /\ [](rn_pc = "restore_copy" => (~dry_run /\ restore_dir \in dirs))
    /\ []((rn_pc = "restored" /\ restore_result /\ ~dry_run) => SnapshotCopiedBack)
    /\ [][/\ RestoreCalled =>
              /\ restore_dir' \notin dirs => (rn_pc' = "restored" /\ ~restore_result')
              /\ (restore_dir' \in dirs /\ dry_run) =>
                    (rn_pc' = "restored" /\ restore_result' /\ fs' = fs)
          /\ (rn_pc = "restore_copy" /\ fs_faults' > fs_faults) =>
                (rn_pc' = "restored" /\ ~restore_result' /\ fs' = fs)
          /\ (rn_pc = "restore_copy" /\ rn_pc' = "restored" /\ fs_faults' = fs_faults) =>
                restore_result'
          /\ rn_pc = "restored" => rn_pc' = "restored"]_vars

\* C15 witness: outside dry run, the restore of this batch's snapshot of three
\* files has returned False because a copy raised.
C15_Witness ==
    /\ rn_pc = "restored"
    /\ ~restore_result
    /\ ~dry_run
    /\ backup_dir # <<>>
    /\ restore_dir = backup_dir
    /\ restore_dir \in dirs
    /\ Cardinality(FilesIn(fs, restore_dir)) = 3

\* the snapshot directory of this batch is on disk
SnapshotCreated == backup_dir # <<>> /\ backup_dir \in dirs

\* no rename of the batch has been executed yet
NothingRenamed ==
    /\ rename_log = <<>>
    /\ \A p \in DOMAIN fs_at_call : p \in DOMAIN fs /\ fs[p] = fs_at_call[p]

\* the snapshot holds every input file but those whose copy raised
SnapshotComplete ==
    /\ Len(file_paths) - Cardinality(backed_up) <= fs_faults
    /\ \A i \in backed_up :
          /\ Path(backup_dir, file_paths[i].name) \in DOMAIN fs
          /\ fs[Path(backup_dir, file_paths[i].name)] = fs_at_call[file_paths[i]]

\* what C16 says of the copies and the renames: the snapshot is complete
\* before the first rename, and a failed copy stops neither the copies nor
\* the renames
SnapshotBeforeRenames ==
    /\ rn_pc \in {"backup_mkdir", "backup_copy"} => NothingRenamed
    /\ (rn_pc \in {"plan", "execute", "rename_tmp"} /\ backup /\ ~dry_run) =>
          SnapshotComplete
    /\ rn_pc = "plan" => NothingRenamed
    /\ RenameFinished => Len(rename_log) = Len(file_paths)

C17_NoFaultPropagates ==
    file_paths # <<>> => rn_pc # "raised"

\* C18: in every entry of the log, at any point of the batch and after it,
\* the error field is there if and only if success is false.
C18_ErrorIffFailure ==
    \A i \in 1..Len(rename_log) :
        ("error" \in DOMAIN rename_log[i]) <=> ~rename_log[i].success

\* C18 witness: a returned log of three entries holds a failure with its error
\* and a success without one.
C18_Witness ==
    /\ rn_pc = "returned"
    /\ Len(rename_log) = 3
    /\ \E i \in 1..3 : ~rename_log[i].success /\ "error" \in DOMAIN rename_log[i]
    /\ \E i \in 1..3 : rename_log[i].success /\ "error" \notin DOMAIN rename_log[i]

\* rename_files has been called with an empty list and the call has ended
EmptyCallEnded == file_paths = <<>> /\ rn_pc \in {"returned", "raised"}

\* the call has left the disk as it found it and made no snapshot
NoPartialState ==
    /\ fs = fs_at_call
    /\ dirs = dirs_at_call
    /\ backup_dir = <<>>
    /\ temp_renames = <<>>

\* C19 as stated: the call on an empty list ends at once with an error handed
\* to the caller, and leaves no partial state.
C19_EmptyListIsAnError ==
    /\ EmptyCallEnded => (rn_pc = "raised" /\ NoPartialState)
    /\ file_paths = <<>> => ~InRenameFiles

\* C19, amended: the call on an empty list returns at once with an empty log,
\* no error is raised, and it leaves no partial state.
C19_EmptyListReturnsEmptyLog ==
    /\ EmptyCallEnded => (rn_pc = "returned" /\ rename_log = <<>> /\ NoPartialState)
    /\ file_paths = <<>> => ~InRenameFiles

\* C19 witness: outside dry run, a call with an empty list, backup = True and
\* a target directory has returned.
C19_Witness ==
    /\ EmptyCallEnded
    /\ ~dry_run
    /\ backup
    /\ target_dir_arg = OtherDir

\* C20: with caching disabled the cache stays empty, and every call of
\* compare_images_order consults the oracle (it reaches the model, or raises
\* on the way to it) and stores nothing.
C20_DisabledCacheStoresNothing ==
    ~ENABLE_COMPARISON_CACHE =>
        /\ comparison_cache = EmptyCache
        /\ last_compare # NoCompare =>
              /\ last_compare.stored = "none"
              /\ last_compare.invoked \/ last_compare.raised
        /\ \A p \in Pairs : oracle_calls[p] >= oracle_verdicts[p]

\* C20 witness: with caching disabled the same pair has been sent to the
\* model twice, in both orders or the same, and was answered both times.
C20_Witness ==
    /\ ~ENABLE_COMPARISON_CACHE
    /\ last_compare # NoCompare
    /\ last_compare.invoked
    /\ ~last_compare.raised
    /\ last_compare.result # 0
    /\ oracle_verdicts[{last_compare.img1, last_compare.img2}] = 2

\* ----------------------------------------------- detector: further claims

\* C21: when no file of the list yields a number, validate_sequence reports
\* no min_number and no max_number, nothing missing and nothing duplicated,
\* is_valid is not false, and total_files is the length of the list.
C21_NoNumberNoVerdict ==
    (validation # <<>> /\ YieldedNumbers = {}) =>
        /\ validation[1].min_number = <<>>
        /\ validation[1].max_number = <<>>
        /\ validation[1].missing_numbers = <<>>
        /\ DOMAIN validation[1].duplicate_numbers = {}
        /\ validation[1].is_valid
        /\ validation[1].total_files = Len(det_files)

\* C21 witness: two files without a number have been validated.
C21_Witness ==
    /\ validation # <<>>
    /\ Len(det_files) = 2
    /\ \A i \in 1..2 : ~YieldsNumber(i)
    /\ validation[1].total_files = 2

\* yielded numbers a < b with no yielded number between them, more than 1 apart
AdjacentGaps ==
    { <<a, b>> \in YieldedNumbers \X YieldedNumbers :
          /\ b - a > 1
          /\ \A n \in YieldedNumbers : ~(a < n /\ n < b) }

\* C22: get_sequence_gaps returns exactly the pairs of neighbours of the set
\* of yielded numbers that are more than 1 apart, each once, in ascending
\* order, also when several files yield the same number; the integers
\* strictly inside the returned pairs are exactly what detect_missing returns.
C22_GapsAreMissingRanges ==
    gaps # <<>> =>
        LET g == gaps[1]
        IN  /\ { g[i] : i \in 1..Len(g) } = AdjacentGaps
            /\ \A i \in 1..(Len(g) - 1) : g[i][2] <= g[i + 1][1]
            /\ missing # <<>> =>
                  { n \in 0..100 : \E i \in 1..Len(g) : g[i][1] < n /\ n < g[i][2] }
                      = { missing[1][i] : i \in 1..Len(missing[1]) }

\* C22 witness: two files yield 2, the others 5 and 10; the gaps (2, 5) and
\* (5, 10) and the missing numbers have been computed.
C22_Witness ==
    /\ gaps # <<>>
    /\ missing # <<>>
    /\ Len(det_files) = 4
    /\ YieldedNumbers = {2, 5, 10}
    /\ gaps[1] = << <<2, 5>>, <<5, 10>> >>
    /\ missing[1] = <<3, 4, 6, 7, 8, 9>>

\* ------------------------------------------ renamer: claims on the batch

\* C23: when a non-dry-run rename_files has handled every item, the planned
\* path of every success entry exists and holds the content the original path
\* held at the call, the file of every failed entry is still at its original
\* path with its content, and no file is left under a temporary name.
C23_LogDescribesDisk ==
    (RenameFinished /\ ~dry_run) =>
        \A i \in 1..Len(rename_log) :
            /\ TempPath(rename_log[i].new) \notin DOMAIN fs
            /\ IF rename_log[i].success
               THEN /\ rename_log[i].new \in DOMAIN fs
                    /\ fs[rename_log[i].new] = fs_at_call[file_paths[i]]
               ELSE /\ file_paths[i] \in DOMAIN fs
                    /\ fs[file_paths[i]] = fs_at_call[file_paths[i]]

\* the files of target_dir at the call that are not part of the batch
Outsiders ==
    { p \in DOMAIN fs_at_call :
          /\ p.parent = target_dir
          /\ \A i \in 1..Len(file_paths) : file_paths[i] # p }

\* C24: at every point of a non-dry-run rename_files, a file of target_dir
\* that is not part of the batch, one holding a planned name or a temporary
\* name included, has the name and the content it had at the call.
C24_OutsidersUntouched ==
    (InRenameFiles /\ ~dry_run) =>
        \A p \in Outsiders : p \in DOMAIN fs /\ fs[p] = fs_at_call[p]

\* C25: as long as rename_files has not computed the planned paths, the call
\* has changed nothing on disk: no directory made, no file copied.
C25_PlanBeforeMutation ==
    rn_pc \in {"backup_mkdir", "backup_copy", "plan"} =>
        /\ fs = fs_at_call
        /\ dirs = dirs_at_call

\* C26 as stated: when rename_files is repeated with the same prefix, digits
\* and start_number on the paths a fully successful batch produced, every
\* entry is a success and files and directories are what they were at the call.
C26_RerunChangesNothing ==
    (rerun /\ RenameFinished) =>
        /\ Len(rename_log) = Len(file_paths)
        /\ \A i \in 1..Len(rename_log) : rename_log[i].success
        /\ fs = fs_at_call
        /\ dirs = dirs_at_call

\* C26: at every point of such a repeated call every entry is a success and
\* every file outside the call's snapshot directory keeps name and content,
\* the only new files being the snapshot's; without a snapshot (backup off or
\* dry run) nothing changes at all; when making the snapshot directory
\* raises, the call ends with that error and has changed nothing.
C26_RerunKeepsFiles ==
    /\ (rerun /\ InRenameFiles) =>
          /\ \A i \in 1..Len(rename_log) : rename_log[i].success
          /\ RenameFinished => Len(rename_log) = Len(file_paths)
          /\ \A p \in DOMAIN fs_at_call :
                p.parent # backup_dir => (p \in DOMAIN fs /\ fs[p] = fs_at_call[p])
          /\ \A p \in DOMAIN fs \ DOMAIN fs_at_call : p.parent = backup_dir
          /\ ~NeedsBackup(backup, dry_run) => (fs = fs_at_call /\ dirs = dirs_at_call)
    /\ (rerun /\ rn_pc = "raised") => (fs = fs_at_call /\ dirs = dirs_at_call)

\* C26 witness: three renamed files have been handed to rename_files again,
\* outside dry run with backup = True; every item was skipped and the only
\* change is the snapshot.
C26_Witness ==
    /\ rerun
    /\ RenameFinished
    /\ ~dry_run
    /\ backup
    /\ Len(file_paths) = 3
    /\ \A i \in 1..3 : /\ file_paths[i] \notin DOMAIN InitialFs
                       /\ file_paths[i] \in DOMAIN fs
                       /\ rename_log[i].success
    /\ fs # fs_at_call

\* ------------------------------------------- analyzer: further claims

\* C27: the cache never holds an entry for (A, B) and one for (B, A), A # B,
\* whatever comparisons, sorts and cache clears have been made.
C27_OneEntryPerPair ==
    \A a \in Images : \A b \in Images \ {a} :
        ~(<<a, b>> \in DOMAIN comparison_cache /\ <<b, a>> \in DOMAIN comparison_cache)

\* C27 witness: after direct comparisons and a sort the cache holds the three
\* pairs, and the last comparison of the sort was served from the entry
\* stored under the reversed key.
C27_Witness ==
    /\ sort_pc = "done"
    /\ Cardinality(DOMAIN comparison_cache) = 3
    /\ last_compare.stored = "reverse"
    /\ Len(sorted_paths) = 3

\* the orders the input of the sort can be put in
Orders == { t \in ImageLists : IsPermutation(t, image_paths) }

\* position of item x in the list t
Position(t, x) == CHOOSE i \in 1..Len(t) : t[i] = x

\* every comparator result of this sort is the verdict of the strict total
\* order t: -1 when the first item precedes the second in t, 1 otherwise
AgreesWith(t) ==
    \A v \in sort_verdicts :
        v[3] = IF Position(t, v[1]) < Position(t, v[2]) THEN -1 ELSE 1

\* C28: when no comparison of a sort fails and the verdicts are those of a
\* strict total order, the sort returns the items in that order.
C28_SortFollowsTotalOrder ==
    (sort_pc = "done" /\ Len(image_paths) >= 2 /\ ~sort_fault_seen) =>
        \A t \in Orders : AgreesWith(t) => sorted_paths = t

\* C28 witness: three items given in the reverse of the oracle's order have
\* been sorted into it.
C28_Witness ==
    /\ sort_pc = "done"
    /\ ~sort_fault_seen
    /\ Len(image_paths) = 3
    /\ sorted_paths = ReverseRun(image_paths, 3)
    /\ AgreesWith(sorted_paths)

\* C29: whatever the comparisons answer, the sort comes to its end and what
\* it returns is a permutation of its input.
C29_SortEndsWithPermutation ==
    /\ (sort_pc \in {"count_run", "binarysort"}) ~> (sort_pc = "done")
    /\ [](sort_pc = "done" => IsPermutation(sorted_paths, image_paths))

\* C29 witness: a sort of three items has ended although one pair was
\* answered -1 at one consultation and 1 at another.
C29_Witness ==
    /\ sort_pc = "done"
    /\ Len(image_paths) = 3
    /\ IsPermutation(sorted_paths, image_paths)
    /\ \E v \in sort_verdicts : v[3] = -1 /\ <<v[1], v[2], 1>> \in sort_verdicts

\* C30: in a sort of n >= 2 items every progress callback receives the total
\* n(n-1)/2 and a count that starts at 1, grows by 1 per call and stays
\* within the total.
C30_ProgressWithinEstimate ==
    (Len(image_paths) >= 2 /\ progress_callback) =>
        \A i \in 1..Len(progress_calls) :
            /\ progress_calls[i][2] = EstimatedComparisons(Len(image_paths))
            /\ progress_calls[i][1] = i
            /\ progress_calls[i][1] <= progress_calls[i][2]

\* ------------------------------------------------- claims C31 to C36

\* the files of the snapshots that existed when rename_files was called
EarlierSnapshotFiles ==
    { p \in DOMAIN fs_at_call : p.parent \in RestoreArgs }

\* C31: the snapshot directory of a non-dry-run batch with backup = True did
\* not exist when the batch was called, so it is the directory of no earlier
\* batch, and the files of the earlier snapshots keep their content.
C31_SnapshotIsFresh ==
    (InRenameFiles /\ ~dry_run /\ backup /\ backup_dir # <<>>) =>
        /\ backup_dir \notin dirs_at_call
        /\ \A p \in EarlierSnapshotFiles :
              p \in DOMAIN fs /\ fs[p] = fs_at_call[p]

\* the last call found neither key in the cache as it is now
LastPairUncached ==
    ~CacheLookup(comparison_cache, ENABLE_COMPARISON_CACHE,
                 last_compare.img1, last_compare.img2).hit

\* C34: a comparison that fails returns 0 and leaves the cache as it was, so
\* the pair is still not cached and its next comparison consults the oracle
\* again; a 0 returned by a call that did not fail is stored under the
\* pair's key when caching is enabled.
C34_FailureStoresNothing ==
    /\ [](last_compare.raised => (last_compare.result = 0 /\ LastPairUncached))
    /\ [][last_compare'.raised => comparison_cache' = comparison_cache]_vars
    /\ []((/\ ENABLE_COMPARISON_CACHE
           /\ last_compare.invoked
           /\ ~last_compare.raised
           /\ last_compare.result = 0) =>
              /\ <<last_compare.img1, last_compare.img2>> \in DOMAIN comparison_cache
              /\ comparison_cache[<<last_compare.img1, last_compare.img2>>] = 0)

\* C34 witness: the first model call for a pair failed, the second answered 0
\* and that 0 is in the cache.
C34_Witness ==
    /\ ENABLE_COMPARISON_CACHE
    /\ oracle_faults = 1
    /\ last_compare.invoked
    /\ ~last_compare.raised
    /\ last_compare.result = 0
    /\ oracle_calls[{last_compare.img1, last_compare.img2}] = 2
    /\ <<last_compare.img1, last_compare.img2>> \in DOMAIN comparison_cache

\* the files of the batch have one extension
SameExtension ==
    \A i, j \in 1..Len(file_paths) :
        Suffix(file_paths[i].name) = Suffix(file_paths[j].name)

\* C36: when the files of a batch have one extension, two different
\* positions of the input never get the same planned path.
C36_PlannedPathsDistinct ==
    SameExtension =>
        \A i, j \in 1..Len(temp_renames) :
            i # j => temp_renames[i].final_path # temp_renames[j].final_path

\* C36 witness: three files have been planned from start_number -1 with two
\* digits, the numbers -1, 0 and 1 giving three different names.
C36_Witness ==
    /\ Len(temp_renames) = 3
    /\ SameExtension
    /\ start_number = 0 - 1
    /\ digits = 2
    /\ Cardinality({ temp_renames[i].final_path : i \in 1..3 }) = 3

\* thread t is inside sort_images_by_content
Sorting(t) == threads[t].pc = "sorting"

\* the two lists have a file in common
Overlap(s, t) ==
    \E i \in 1..Len(s) : \E j \in 1..Len(t) : s[i] = t[j]

\* C32: while an analysis thread is sorting, no rename batch runs on files
\* that are being sorted.
C32_NoRenameDuringSort ==
    \A t \in Threads :
        ~(Sorting(t) /\ rename_pc = "renaming"
                     /\ Overlap(threads[t].image_paths, ordered_paths))

\* C33: two analysis threads are never inside sort_images_by_content at the
\* same time.
C33_OneSortAtATime ==
    \A t, u \in Threads : (Sorting(t) /\ Sorting(u)) => t = u

\* ------------------------------------------- one analyzer across a rename
\* A session as the window runs it: the analyzer is built once, a scanned
\* list is sorted, the files are renamed in the order the sort returned, and
\* the same analyzer sorts again.  clear_cache is never called in between.

\* the lists handed to sort_images_by_content in a session
SessionLists == { <<1, 2>>, <<2, 1>>, <<1, 2, 3>> }

\* the naming of the batch: no prefix, one digit, numbers from 0, so that
\* every file moves one name down and some new names are names of scanned files
SessionOptions == [prefix |-> <<>>, digits |-> 1, start_number |-> 0]

\* the paths of a list of images
ImageFiles(s) == [i \in 1..Len(s) |-> ImageFile(s[i])]

\* sort_images_by_content on the session's analyzer, no rename running
SessionSort ==
    /\ rn_pc \in {"idle", "returned"}
    /\ SortImagesByContentOf(SessionLists, {FALSE})

\* rename_files on the order the last sort returned
SessionRename ==
    /\ sort_pc = "done"
    /\ rn_pc = "idle"
    /\ rerun' = FALSE
    /\ RenameFilesCall(ImageFiles(sorted_paths), <<>>, SessionOptions.prefix,
                       SessionOptions.digits, SessionOptions.start_number, FALSE)

SessionNext ==
    \/ SessionSort
    \/ CountRunStep
    \/ BinarySortStep
    \/ SessionRename
    \/ PlanRenames
    \/ ExecuteItem
    \/ RenameTemp
    \/ RenameReturn

SpecSession == InitRenamer /\ [][SessionNext]_vars

\* the cache entry the call just made was answered from (as stored)
ServedKey(c) ==
    IF c.stored = "same" THEN <<c.img1, c.img2>> ELSE <<c.img2, c.img1>>

\* the comparison just made was answered from the cache
ServedFromCache == last_compare' # last_compare /\ last_compare'.stored # "none"

\* C35: a verdict answered from the cache was computed on the contents that
\* the two paths hold now, also after rename_files has moved contents between
\* paths.
C35_CacheServesCurrentContent ==
    [][ServedFromCache =>
          cached_for[ServedKey(last_compare')] =
              << Content(ServedKey(last_compare')[1]),
                 Content(ServedKey(last_compare')[2]) >>]_vars

====
